---------------------------- MODULE Spec2Model ----------------------------
(***************************************************************************)
(* Fire-group detection (scripts/fire_group_detection.py): the daily       *)
(* clustering of detections (detect_daily_clusters), the cross-day linking *)
(* of daily clusters into trajectories (track_clusters) and the rule-based *)
(* classifier (classify_trajectory); and the boundary interaction of       *)
(* scripts/analyze_group_infractions.py (analyze_trajectory_response,      *)
(* analyze_park).                                                          *)
(*                                                                         *)
(* Numbers.  Python computes in binary floating point; the model computes  *)
(* in fixed point over the integers:                                       *)
(*   - lat and lon of a cluster are integers in units of 1/111 degree,     *)
(*     so that a latitude difference times 111 is a whole number of km;    *)
(*   - distances are in centi-km (0.01 km), rounded up;                    *)
(*   - cos is in millionths; link scores are in 1/11100 km;                *)
(*   - the rounded metrics (round(x, 1)) are in deci-units (0.1).          *)
(* A comparison with a whole number of km is exact where the distance is   *)
(* a whole number of km (steps along a meridian); elsewhere it is exact    *)
(* up to the 0.01 km resolution.                                           *)
(* Dates are <<month, day>> pairs of one non-leap year; the ISO strings    *)
(* of the source sort in the same order.                                   *)
(***************************************************************************)
EXTENDS Integers, Sequences, FiniteSets

VARIABLES
    daily_clusters,  \* track_clusters argument: date -> sequence of clusters
    used,            \* set of <<date, cid>> keys already claimed
    trajectories,    \* result list of track_clusters
    sorted_dates,    \* sorted(daily_clusters.keys())
    traj,            \* the chain being built
    current,         \* the chain's last cluster
    start_idx,       \* outer loop: index into sorted_dates
    cluster_idx,     \* outer loop: index into daily_clusters[start_date]
    next_idx,        \* extension loop: index into sorted_dates
    pc,              \* position in track_clusters
    discarded,       \* keys of the clusters of chains dropped at line 128
    run,             \* number of the current track_clusters call
    prev_result,     \* trajectories returned by the previous call
    ctraj,           \* classify_trajectory argument
    cresult,         \* classify_trajectory return value
    cpc,             \* position in classify_trajectory
    atraj,           \* analyze_trajectory_response argument traj
    boundary,        \* the points boundary_prep.contains holds of
    point_status,    \* analyze_trajectory_response: one record per cluster
    inside_points,   \* the records of point_status that are inside
    outcome,         \* analyze_trajectory_response: the outcome chosen
    aresult,         \* analyze_trajectory_response return value
    apc,             \* position in analyze_trajectory_response
    fires_df,        \* detect_daily_clusters argument: the rows of the table
    detect_result,   \* detect_daily_clusters: its dict daily_clusters
    masks,           \* date -> the rows cf of each cluster of detect_result
    attempted,       \* the dates DBSCAN was run for
    detect_dates,    \* sorted(fires_df['acq_date'].unique())
    detect_idx,      \* detect_daily_clusters: index into detect_dates
    dpc,             \* position in detect_daily_clusters
    park,            \* analyze_park argument
    fire_data,       \* what load_fire_data_for_region finds for (park, year)
    fires,           \* analyze_park: the table loaded
    infraction_trajs, \* analyze_park: the interaction records kept
    traj_idx,        \* analyze_park: index into trajectories
    presult,         \* analyze_park return value
    calls,           \* the functions analyze_park has called
    ppc,             \* position in analyze_park
    sresult,         \* return value of analyze_trajectory (fire_processor_streaming)
    spc,             \* position in analyze_trajectory (fire_processor_streaming)
    oresult,         \* return value of analyze_trajectory (fire_processor_optimized)
    opc,             \* position in analyze_trajectory (fire_processor_optimized)
    results,         \* analyze_park (fire_group_detection): the dict results
    group_idx,       \* analyze_park (fire_group_detection): index into trajectories
    gpc,             \* position in analyze_park (fire_group_detection)
    suspended,       \* the locals of the track_clusters invocation that is not running
    active           \* the track_clusters invocation that is running

track_vars == <<daily_clusters, used, trajectories, sorted_dates, traj, current, start_idx,
                cluster_idx, next_idx, pc, discarded, run, prev_result>>
classify_vars == <<ctraj, cresult, cpc>>
analyze_vars == <<atraj, boundary, point_status, inside_points, outcome, aresult, apc>>
detect_vars == <<fires_df, detect_result, masks, attempted, detect_dates, detect_idx, dpc>>
park_vars == <<park, fire_data, fires, infraction_trajs, traj_idx, presult, calls, ppc>>
variant_vars == <<sresult, spc, oresult, opc>>
pipeline_vars == <<results, group_idx, gpc>>
interleave_vars == <<suspended, active>>
extra_vars == <<variant_vars, pipeline_vars, interleave_vars>>
other_vars == <<analyze_vars, detect_vars, park_vars, extra_vars>>
outside_analyze == <<track_vars, classify_vars, detect_vars, park_vars, extra_vars>>
outside_detect == <<track_vars, classify_vars, analyze_vars, park_vars, extra_vars>>
vars == <<track_vars, classify_vars, other_vars>>

---------------------------------------------------------------------------
\* Bounds of the model
MaxDates == 5
MaxRuns == 2
MaxTrajLen == 11

\* Program constants
max_link_km == 25
max_gap_days == 3
min_trajectory_length == 5

---------------------------------------------------------------------------
\* Arithmetic helpers

Abs(x) == IF x < 0 THEN -x ELSE x

Max2(a, b) == IF a >= b THEN a ELSE b

Min2(a, b) == IF a <= b THEN a ELSE b

RECURSIVE SqrtIter(_, _, _)
SqrtIter(v, lo, hi) ==
    IF lo >= hi THEN lo
    ELSE LET mid == (lo + hi) \div 2
         IN  IF mid * mid >= v THEN SqrtIter(v, lo, mid)
                               ELSE SqrtIter(v, mid + 1, hi)

\* np.sqrt: the least r with r*r >= v
SqrtCeil(v) == SqrtIter(v, 0, 46340)

\* round to the nearest integer of num/den (den > 0), halves to even, as
\* Python's round does
RoundDiv(num, den) ==
    LET q == num \div den
        r == num % den
    IN  IF 2 * r < den THEN q
        ELSE IF 2 * r > den THEN q + 1
        ELSE IF q % 2 = 0 THEN q ELSE q + 1

\* np.cos(np.radians(mean latitude)) in millionths, for latsum = lat1 + lat2
\* in units of 1/111 degree: x = latsum/222 degrees, cos x = 1 - x^2/2 + x^4/24
CosE6(latsum) ==
    LET h == (latsum * latsum * 309) \div 100000      \* 10^6 * x^2 / 2
    IN  1000000 - h + (h * h) \div 6000000

\* distance_km, in centi-km
distance_km(lat1, lon1, lat2, lon2) ==
    LET lat_diff == Abs(lat2 - lat1) * 100
        lon_diff == (Abs(lon2 - lon1) * CosE6(lat1 + lat2)) \div 10000
    IN  SqrtCeil(lat_diff * lat_diff + lon_diff * lon_diff)

---------------------------------------------------------------------------
\* Dates

DaysInMonth(m) == IF m = 2 THEN 28 ELSE IF m \in {4, 6, 9, 11} THEN 30 ELSE 31

RECURSIVE DaysBefore(_)
DaysBefore(m) == IF m <= 1 THEN 0 ELSE DaysBefore(m - 1) + DaysInMonth(m - 1)

\* pd.to_datetime(date) as a day number within the year
to_datetime(date) == DaysBefore(date[1]) + date[2]

\* order of the ISO date strings
DateLess(a, b) == a[1] < b[1] \/ (a[1] = b[1] /\ a[2] < b[2])

\* sorted(daily_clusters.keys())
RECURSIVE SortDates(_)
SortDates(S) ==
    IF S = {} THEN << >>
    ELSE LET least == CHOOSE d \in S : \A e \in S : e = d \/ DateLess(d, e)
         IN  <<least>> \o SortDates(S \ {least})

\* (pd.to_datetime(next_date) - pd.to_datetime(current['date'])).days
\* variant: the gap counts the days strictly between the two dates
DateGapOffByOne(next_date, cur_date) == to_datetime(next_date) - to_datetime(cur_date) - 1

\* variant: the gap counts both end days
DateGapInclusive(next_date, cur_date) == to_datetime(next_date) - to_datetime(cur_date) + 1

DateGap(next_date, cur_date) == to_datetime(next_date) - to_datetime(cur_date)

Key(c) == <<c.date, c.cid>>

---------------------------------------------------------------------------
\* track_clusters

\* value of a local that holds no cluster yet
NoCluster == [date |-> <<0, 0>>, cid |-> -1, lat |-> 0, lon |-> 0,
              fires |-> 0, spread_km |-> 0]

\* score = dist - lat_move * 5 + size_ratio * 2, in 1/11100 km; lat_move is a
\* difference of degrees, dist is in centi-km
\* variant: the sign of lat_move is flipped (northward moves rewarded)
ScoreNorthward(cur, nc, dist) ==
    111 * dist + 500 * (cur.lat - nc.lat)
        + (22200 * Max2(cur.fires, nc.fires)) \div Max2(1, Min2(cur.fires, nc.fires))

Score(cur, nc, dist) ==
    111 * dist - 500 * (cur.lat - nc.lat)
        + (22200 * Max2(cur.fires, nc.fires)) \div Max2(1, Min2(cur.fires, nc.fires))

\* if nkey in used: continue
\* variant: candidates are not checked against used
IsUsedNever(nkey) == FALSE

\* variant: candidates are checked against the chain under construction
IsUsedByThisChain(nkey) == nkey \in {Key(traj[i]) : i \in 1..Len(traj)}

IsUsed(nkey) == nkey \in used

\* variant: no candidate is too far
TooFarNever(dist) == FALSE

\* variant: max_link_km is 40
TooFarBeyondForty(dist) == dist > 4000

\* variant: the reach is 20 km
TooFarBeyondTwenty(dist) == dist > 2000

\* if dist > max_link_km: continue, dist in centi-km
TooFar(dist) == dist > max_link_km * 100

\* the loop over daily_clusters[next_date]: best is <<index, score>> of the
\* best candidate so far, index 0 standing for None and its score for inf
RECURSIVE BestLoop(_, _, _, _)
BestLoop(cands, i, cur, best) ==
    IF i > Len(cands) THEN best[1]
    ELSE LET nc == cands[i]
             dist == distance_km(cur.lat, cur.lon, nc.lat, nc.lon)
             score == Score(cur, nc, dist)
         IN  IF IsUsed(Key(nc)) THEN BestLoop(cands, i + 1, cur, best)
             ELSE IF TooFar(dist) THEN BestLoop(cands, i + 1, cur, best)
             ELSE IF best[1] = 0 \/ score < best[2]
                  THEN BestLoop(cands, i + 1, cur, <<i, score>>)
                  ELSE BestLoop(cands, i + 1, cur, best)

\* index in daily_clusters[next_date] of the cluster to link, 0 if none
Best(next_date, cur) == BestLoop(daily_clusters[next_date], 1, cur, <<0, 0>>)

\* the outer loops move on to the next cluster
AdvanceOuter ==
    IF cluster_idx < Len(daily_clusters[sorted_dates[start_idx]])
    THEN /\ cluster_idx' = cluster_idx + 1
         /\ start_idx' = start_idx
    ELSE /\ cluster_idx' = 1
         /\ start_idx' = start_idx + 1

\* used = set()
\* variant: used outlives the call
UsedAtEntryKept(u) == u

UsedAtEntry(u) == {}

\* entry of track_clusters: trajectories = [], used = set(), sorted_dates
Call ==
    /\ pc \in {"idle", "done"}
    /\ run < MaxRuns
    /\ run' = run + 1
    /\ prev_result' = trajectories
    /\ trajectories' = << >>
    /\ used' = UsedAtEntry(used)
    /\ sorted_dates' = SortDates(DOMAIN daily_clusters)
    /\ discarded' = {}
    /\ traj' = << >>
    /\ current' = NoCluster
    /\ start_idx' = 1
    /\ cluster_idx' = 1
    /\ next_idx' = 0
    /\ pc' = "outer"
    /\ UNCHANGED <<daily_clusters, classify_vars, other_vars>>

\* if key in used: continue
SkipUsed ==
    /\ pc = "outer"
    /\ start_idx <= Len(sorted_dates)
    /\ Key(daily_clusters[sorted_dates[start_idx]][cluster_idx]) \in used
    /\ AdvanceOuter
    /\ UNCHANGED <<daily_clusters, sorted_dates, used, trajectories, traj, current, next_idx,
                   pc, discarded, run, prev_result, classify_vars, other_vars>>

\* range(start_idx + 1, len(sorted_dates)): the first date of the extension scan
\* variant: range(start_idx, ...)
FirstNextIdxSameDate(idx) == idx

FirstNextIdx(idx) == idx + 1

\* traj = [cluster]; used.add(key); current = cluster
StartChain ==
    /\ pc = "outer"
    /\ start_idx <= Len(sorted_dates)
    /\ LET cluster == daily_clusters[sorted_dates[start_idx]][cluster_idx]
       IN  /\ Key(cluster) \notin used
           /\ traj' = <<cluster>>
           /\ used' = used \cup {Key(cluster)}
           /\ current' = cluster
    /\ next_idx' = FirstNextIdx(start_idx)
    /\ pc' = "extend"
    /\ UNCHANGED <<daily_clusters, sorted_dates, trajectories, start_idx, cluster_idx,
                   discarded, run, prev_result, classify_vars, other_vars>>

\* one iteration of the extension loop that finds a best candidate:
\* traj.append(best); used.add(...); current = best
ExtendLink ==
    /\ pc = "extend"
    /\ next_idx <= Len(sorted_dates)
    /\ LET next_date == sorted_dates[next_idx]
           best == Best(next_date, current)
       IN  /\ DateGap(next_date, current.date) <= max_gap_days
           /\ best # 0
           /\ traj' = Append(traj, daily_clusters[next_date][best])
           /\ used' = used \cup {Key(daily_clusters[next_date][best])}
           /\ current' = daily_clusters[next_date][best]
    /\ next_idx' = next_idx + 1
    /\ UNCHANGED <<daily_clusters, sorted_dates, trajectories, start_idx, cluster_idx, pc,
                   discarded, run, prev_result, classify_vars, other_vars>>

\* one iteration of the extension loop that finds no candidate on next_date
ExtendSkip ==
    /\ pc = "extend"
    /\ next_idx <= Len(sorted_dates)
    /\ LET next_date == sorted_dates[next_idx]
       IN  /\ DateGap(next_date, current.date) <= max_gap_days
           /\ Best(next_date, current) = 0
    /\ next_idx' = next_idx + 1
    /\ UNCHANGED <<daily_clusters, sorted_dates, used, trajectories, traj, current, start_idx,
                   cluster_idx, pc, discarded, run, prev_result, classify_vars, other_vars>>

\* if date_gap > max_gap_days: break
ExtendBreak ==
    /\ pc = "extend"
    /\ next_idx <= Len(sorted_dates)
    /\ DateGap(sorted_dates[next_idx], current.date) > max_gap_days
    /\ pc' = "close"
    /\ UNCHANGED <<daily_clusters, sorted_dates, used, trajectories, traj, current, start_idx,
                   cluster_idx, next_idx, discarded, run, prev_result,
                   classify_vars, other_vars>>

\* the extension loop runs out of dates
ExtendExhausted ==
    /\ pc = "extend"
    /\ next_idx > Len(sorted_dates)
    /\ pc' = "close"
    /\ UNCHANGED <<daily_clusters, sorted_dates, used, trajectories, traj, current, start_idx,
                   cluster_idx, next_idx, discarded, run, prev_result,
                   classify_vars, other_vars>>

\* if len(traj) >= 5: trajectories.append(traj)
\* variant: the floor is one lower
KeepsChainShort(t) == Len(t) >= min_trajectory_length - 1

KeepsChain(t) == Len(t) >= min_trajectory_length

\* variant: the dropped chain's clusters are unmarked
UsedAfterDiscardUnmarked(u, t) == u \ {Key(t[i]) : i \in 1..Len(t)}

\* the used set after a chain of clusters t was dropped: nothing is unmarked
UsedAfterDiscard(u, t) == u

\* end of one chain: keep it or drop it, then go on with the outer loops
CloseChain ==
    /\ pc = "close"
    /\ IF KeepsChain(traj)
       THEN /\ trajectories' = Append(trajectories, traj)
            /\ UNCHANGED <<discarded, used>>
       ELSE /\ discarded' = discarded \cup {Key(traj[i]) : i \in 1..Len(traj)}
            /\ used' = UsedAfterDiscard(used, traj)
            /\ UNCHANGED trajectories
    /\ AdvanceOuter
    /\ pc' = "outer"
    /\ UNCHANGED <<daily_clusters, sorted_dates, traj, current, next_idx, run,
                   prev_result, classify_vars, other_vars>>

\* return trajectories
Return ==
    /\ pc = "outer"
    /\ start_idx > Len(sorted_dates)
    /\ pc' = "done"
    /\ UNCHANGED <<daily_clusters, sorted_dates, used, trajectories, traj, current, start_idx,
                   cluster_idx, next_idx, discarded, run, prev_result,
                   classify_vars, other_vars>>

---------------------------------------------------------------------------
\* Inputs of track_clusters: maps as detect_daily_clusters builds them (every
\* date has a non-empty cluster list, cids number the clusters of a day, each
\* cluster carries the date it is filed under)

\* X: a cluster at 6 N.  N: 5 km north of X, four times its size.  S: 11 km
\* south and 3 km east of X.  Z: 28 km north of X, within 25 km of N only.
ClusterX == [lat |-> 666, lon |-> 0, fires |-> 10, spread_km |-> 4]
ClusterN == [lat |-> 671, lon |-> 0, fires |-> 40, spread_km |-> 9]
ClusterS == [lat |-> 655, lon |-> 3, fires |-> 10, spread_km |-> 4]
ClusterZ == [lat |-> 694, lon |-> 2, fires |-> 10, spread_km |-> 6]

Layouts == { <<ClusterX>>, <<ClusterN, ClusterS>>, <<ClusterZ>> }

LongGaps == {3, 4}

\* the date with day number n
RECURSIVE FromOrdinal(_, _)
FromOrdinal(n, m) ==
    IF n <= DaysInMonth(m) THEN <<m, n>> ELSE FromOrdinal(n - DaysInMonth(m), m + 1)

\* date of the i-th day of the input: consecutive days from 29 January on,
\* with one gap of long_gap days after the day long_pos
InputDate(i, long_pos, long_gap) ==
    FromOrdinal(28 + i + (IF long_pos > 0 /\ i > long_pos THEN long_gap - 1 ELSE 0), 1)

MkClusters(date, layout) ==
    [i \in 1..Len(layout) |->
        [date |-> date, cid |-> i - 1, lat |-> layout[i].lat, lon |-> layout[i].lon,
         fires |-> layout[i].fires, spread_km |-> layout[i].spread_km]]

MkInput(n, lay, long_pos, long_gap) ==
    [d \in {InputDate(i, long_pos, long_gap) : i \in 1..n} |->
        LET i == CHOOSE j \in 1..n : InputDate(j, long_pos, long_gap) = d
        IN  MkClusters(d, lay[i])]

NoResult == [label |-> "none", metrics |-> [k \in {} |-> 0]]

\* Python's None as the return value of analyze_trajectory_response
NoneValue == [none |-> TRUE]

IsNone(r) == r = NoneValue

\* analyze_trajectory_response is not running
AnalyzeIdle ==
    /\ atraj = << >>
    /\ boundary = {}
    /\ point_status = << >>
    /\ inside_points = << >>
    /\ outcome = "unset"
    /\ aresult = NoneValue
    /\ apc = "off"

\* detect_daily_clusters is not running
DetectIdle ==
    /\ fires_df = << >>
    /\ detect_result = [d \in {} |-> << >>]
    /\ masks = [d \in {} |-> << >>]
    /\ attempted = {}
    /\ detect_dates = << >>
    /\ detect_idx = 1
    /\ dpc = "off"

\* a table that could not be loaded (None)
NoTable == [loaded |-> FALSE, rows |-> << >>]

\* analyze_park is not running
ParkIdle ==
    /\ park = [geometry |-> "missing", points |-> {}]
    /\ fire_data = NoTable
    /\ fires = NoTable
    /\ infraction_trajs = << >>
    /\ traj_idx = 1
    /\ presult = NoneValue
    /\ calls = {}
    /\ ppc = "off"

\* the analyze_trajectory variants are not running
VariantsIdle ==
    /\ sresult = NoneValue
    /\ spc = "off"
    /\ oresult = NoneValue
    /\ opc = "off"

\* analyze_park of fire_group_detection is not running
PipelineIdle ==
    /\ results = NoneValue
    /\ group_idx = 1
    /\ gpc = "off"

\* there is one track_clusters invocation only
InterleaveIdle ==
    /\ suspended = NoneValue
    /\ active = 0

ExtraIdle == VariantsIdle /\ PipelineIdle /\ InterleaveIdle

OtherIdle == AnalyzeIdle /\ DetectIdle /\ ParkIdle /\ ExtraIdle

Init ==
    /\ \E n \in 0..MaxDates :
         \E lay \in [1..n -> Layouts] :
           \E long_pos \in 0..(IF n = 0 THEN 0 ELSE n - 1) :
             \E long_gap \in LongGaps :
               /\ (long_pos = 0 => long_gap = 3)
               /\ daily_clusters = MkInput(n, lay, long_pos, long_gap)
    /\ used = {}
    /\ trajectories = << >>
    /\ sorted_dates = << >>
    /\ traj = << >>
    /\ current = NoCluster
    /\ start_idx = 1
    /\ cluster_idx = 1
    /\ next_idx = 0
    /\ pc = "idle"
    /\ discarded = {}
    /\ run = 0
    /\ prev_result = << >>
    /\ ctraj = << >>
    /\ cresult = NoResult
    /\ cpc = "idle"
    /\ OtherIdle

Next ==
    \/ Call
    \/ SkipUsed
    \/ StartChain
    \/ ExtendLink
    \/ ExtendSkip
    \/ ExtendBreak
    \/ ExtendExhausted
    \/ CloseChain
    \/ Return

Spec == Init /\ [][Next]_vars


---------------------------------------------------------------------------
\* classify_trajectory

RECURSIVE SumSeq(_)
SumSeq(q) == IF q = << >> THEN 0 ELSE Head(q) + SumSeq(Tail(q))

RECURSIVE MaxSeq(_)
MaxSeq(q) == IF q = << >> THEN 0 ELSE Max2(Head(q), MaxSeq(Tail(q)))

\* movements: the step distances, in centi-km
Movements(t) ==
    [i \in 1..(Len(t) - 1) |->
        distance_km(t[i].lat, t[i].lon, t[i + 1].lat, t[i + 1].lon)]

\* variant: only the empty trajectory is too short
TooShortWhenEmpty(t) == Len(t) < 1

\* if len(traj) < 3
\* variant: len(traj) < 2
TooShortBelowTwo(t) == Len(t) < 2

TooShort(t) == Len(t) < 3

\* avg_speed > km, for avg_speed = total / n in centi-km (0 if n = 0)
\* variant: >= in place of >
SpeedAtLeast(total, n, km) == total >= km * 100 * n

SpeedAbove(total, n, km) == total > km * 100 * n

\* avg_spread > km, for avg_spread = total / n in km
SpreadAbove(total, n, km) == total > km * n

\* net_south = (start['lat'] - end['lat']) * 111, in km
NetSouth(start, end) == start.lat - end.lat

\* round(net_east, 1) for net_east = (end['lon'] - start['lon']) * 111, in
\* tenths of a km
\* variant: with the factor cos(mean latitude)
NetEastLatCorrected(start, end) ==
    RoundDiv((end.lon - start.lon) * (CosE6(start.lat + end.lat) \div 100), 1000)

NetEast(start, end) == 10 * (end.lon - start.lon)

\* the classification rules
Label(t) ==
    LET total == SumSeq(Movements(t))
        n == Len(t) - 1
        spread == SumSeq([i \in 1..Len(t) |-> t[i].spread_km])
        net_south == NetSouth(t[1], t[Len(t)])
        days == Len(t)
    IN  IF SpeedAbove(total, n, 30) THEN "management_fast"
        ELSE IF SpeedAbove(total, n, 15)
             THEN IF SpreadAbove(spread, Len(t), 30) THEN "management_vehicle"
                                                     ELSE "herder_fast"
        ELSE IF SpeedAbove(total, n, 5)
             THEN IF net_south > 20 THEN "transhumance" ELSE "herder_local"
        ELSE IF SpeedAbove(total, n, 2)
             THEN IF days > 10 /\ net_south > 15 THEN "transhumance_slow"
                                                 ELSE "local_burning"
        ELSE IF days > 7 THEN "village_persistent" ELSE "local_stationary"

\* the metrics dict; the values rounded to one decimal are in tenths, the
\* coordinates rounded to three decimals in thousandths of a degree
Metrics(t) ==
    LET start == t[1]
        end == t[Len(t)]
        movements == Movements(t)
        n == Len(movements)
    IN  [days |-> Len(t),
         fires |-> SumSeq([i \in 1..Len(t) |-> t[i].fires]),
         net_south_km |-> 10 * NetSouth(start, end),
         net_east_km |-> NetEast(start, end),
         avg_speed_km_day |-> IF n = 0 THEN 0 ELSE RoundDiv(SumSeq(movements), 10 * n),
         max_speed_km_day |-> RoundDiv(MaxSeq(movements), 10),
         avg_spread_km |->
             RoundDiv(10 * SumSeq([i \in 1..Len(t) |-> t[i].spread_km]), Len(t)),
         start_date |-> start.date,
         end_date |-> end.date,
         start_lat |-> RoundDiv(start.lat * 1000, 111),
         start_lon |-> RoundDiv(start.lon * 1000, 111),
         end_lat |-> RoundDiv(end.lat * 1000, 111),
         end_lon |-> RoundDiv(end.lon * 1000, 111)]

\* the empty dict
EmptyMetrics == [k \in {} |-> 0]

classify_trajectory(t) ==
    IF TooShort(t) THEN [label |-> "unknown", metrics |-> EmptyMetrics]
    ELSE [label |-> Label(t), metrics |-> Metrics(t)]

\* one call of classify_trajectory
Classify ==
    /\ cpc = "idle"
    /\ cresult' = classify_trajectory(ctraj)
    /\ cpc' = "done"
    /\ UNCHANGED <<track_vars, ctraj, other_vars>>

\* Inputs of classify_trajectory: n clusters on consecutive days from 29
\* January on, starting at 6 N; step i moves by a - b or a + b km (in turn) in
\* the direction the pattern gives; every cluster has the same spread

Patterns == {"south", "zigzag", "east"}

StepKms == {0, 2, 3, 5, 10, 15, 16, 30, 31}

StepJitters == {0, 1}

SpreadKms == {4, 30, 31}

\* length of step i
StepLen(i, a, b) == IF i % 2 = 1 THEN a + b ELSE a - b

\* <<dlat, dlon>> of step i
StepVec(i, pattern, len) ==
    IF pattern = "south" THEN <<-len, 0>>
    ELSE IF pattern = "east" THEN <<0, len>>
    ELSE IF i % 2 = 1 THEN <<-len, 0>> ELSE <<len, 0>>

RECURSIVE PosAfter(_, _, _, _)
PosAfter(k, pattern, a, b) ==
    IF k = 0 THEN <<666, 0>>
    ELSE LET p == PosAfter(k - 1, pattern, a, b)
             v == StepVec(k, pattern, StepLen(k, a, b))
         IN  <<p[1] + v[1], p[2] + v[2]>>

BuildTraj(n, pattern, a, b, spread) ==
    [i \in 1..n |->
        [date |-> FromOrdinal(28 + i, 1), cid |-> 0,
         lat |-> PosAfter(i - 1, pattern, a, b)[1],
         lon |-> PosAfter(i - 1, pattern, a, b)[2],
         fires |-> 10 + i, spread_km |-> spread]]

InitClassify ==
    /\ \E n \in 0..MaxTrajLen :
         \E pattern \in Patterns : \E a \in StepKms : \E b \in StepJitters :
           \E spread \in SpreadKms :
             /\ b <= a
             /\ ctraj = BuildTraj(n, pattern, a, b, spread)
    /\ cresult = NoResult
    /\ cpc = "idle"
    /\ daily_clusters = [d \in {} |-> << >>]
    /\ used = {}
    /\ trajectories = << >>
    /\ sorted_dates = << >>
    /\ traj = << >>
    /\ current = NoCluster
    /\ start_idx = 1
    /\ cluster_idx = 1
    /\ next_idx = 0
    /\ pc = "idle"
    /\ discarded = {}
    /\ run = 0
    /\ prev_result = << >>
    /\ OtherIdle

NextClassify == Classify

SpecClassify == InitClassify /\ [][NextClassify]_vars

---------------------------------------------------------------------------
\* analyze_trajectory_response (scripts/analyze_group_infractions.py)

\* Bound on the length of the trajectories analysed
MaxAnalyzeLen == 8

\* boundary_prep.contains(Point(lon, lat)): the prepared geometry is the set of
\* the points it contains
contains(lat, lon) == <<lat, lon>> \in boundary

\* round(x, 4) of a coordinate, in 1/10000 degree
Round4(x) == RoundDiv(x * 10000, 111)

TooShortForResponseAtThree(t) == Len(t) <= 3

\* not traj or len(traj) < 3
TooShortForResponse(t) == Len(t) < 3

\* point_status: idx is the 0-based position in traj
PointStatus(t) ==
    [i \in 1..Len(t) |->
        [idx |-> i - 1, inside |-> contains(t[i].lat, t[i].lon), date |-> t[i].date,
         lat |-> t[i].lat, lon |-> t[i].lon, fires |-> t[i].fires]]

IsInside(p) == p.inside

\* variant: is_inside is stored in the cluster dict itself
TrajAnnotated(t) ==
    [i \in 1..Len(t) |->
        [k \in DOMAIN t[i] \cup {"inside"} |->
            IF k = "inside" THEN contains(t[i].lat, t[i].lon) ELSE t[i][k]]]

\* traj after the loop of lines 114-124: every cluster is read and a new
\* dict appended to point_status, no cluster is written
TrajAfterStatus(t) == t

InsidePoints(ps) == SelectSeq(ps, IsInside)

first_inside_idx == inside_points[1].idx

last_inside_idx == inside_points[Len(inside_points)].idx

before_entry ==
    LET Before(p) == p.idx < first_inside_idx
    IN  SelectSeq(point_status, Before)

AfterFirstInside(ps) ==
    LET After(p) == p.idx > first_inside_idx
    IN  SelectSeq(ps, After)

\* after_last_inside
AfterLastInside(ps) ==
    LET After(p) == p.idx > last_inside_idx
    IN  SelectSeq(ps, After)

OutsideAfterInverted(after) == SelectSeq(after, IsInside)

\* outside_after
OutsideAfter(after) ==
    LET IsOutside(p) == ~p.inside
    IN  SelectSeq(after, IsOutside)

OutcomeExited(after, outside_after) ==
    IF after = << >> THEN "STOPPED_INSIDE"
    ELSE IF outside_after # << >> THEN "EXITED"
    ELSE "STOPPED_AFTER_EXIT"

\* the outcome chosen
Outcome(after, outside_after) ==
    IF after = << >> THEN "STOPPED_INSIDE"
    ELSE IF outside_after # << >> THEN "TRANSITED"
    ELSE "STOPPED_AFTER_EXIT"

\* outcome_detail; the f-string of TRANSITED carries len(outside_after)
OutcomeDetail(o, outside_after) ==
    IF o = "STOPPED_INSIDE" THEN <<"Fires stopped inside PA - possible staff contact or end of tracking">>
    ELSE IF o = "TRANSITED"
         THEN <<"Group transited PA, continued burning", Len(outside_after), "days after exit">>
    ELSE <<"Group exited but stopped burning">>

DaysInsideSpan(ip) == ip[Len(ip)].idx - ip[1].idx + 1

\* days_inside
DaysInside(ip) == Len(ip)

\* inside_distance: the steps traj[i] -> traj[i+1] for i in
\* range(first_inside_idx, last_inside_idx), in centi-km
RECURSIVE InsideDistance(_, _, _)
InsideDistance(t, i, last) ==
    IF i >= last THEN 0
    ELSE distance_km(t[i + 1].lat, t[i + 1].lon, t[i + 2].lat, t[i + 2].lon)
         + InsideDistance(t, i + 1, last)

\* speed_inside, rounded to one decimal, in deci-km per day
SpeedInside(dist, days) == IF days > 0 THEN RoundDiv(dist, 10 * days) ELSE 0

\* {'date', 'lat', 'lon', 'fires'} of the points of a track
Track(ps) ==
    [i \in 1..Len(ps) |->
        [date |-> ps[i].date, lat |-> Round4(ps[i].lat), lon |-> Round4(ps[i].lon),
         fires |-> ps[i].fires]]

FiresOf(ps) == [i \in 1..Len(ps) |-> ps[i].fires]

\* the result dictionary
ResponseResult(t) ==
    LET after == AfterLastInside(point_status)
        first == inside_points[1]
        last == inside_points[Len(inside_points)]
    IN  [none |-> FALSE,
         trajectory_days |-> Len(t),
         total_fires |-> SumSeq(FiresOf(t)),
         origin_lat |-> Round4(t[1].lat),
         origin_lon |-> Round4(t[1].lon),
         origin_date |-> t[1].date,
         days_tracked_before |-> Len(before_entry),
         origin_track |-> Track(before_entry),
         entry_date |-> first.date,
         entry_lat |-> Round4(first.lat),
         entry_lon |-> Round4(first.lon),
         days_burning_inside |-> DaysInside(inside_points),
         fires_inside |-> SumSeq(FiresOf(inside_points)),
         distance_inside_km |->
             RoundDiv(InsideDistance(t, first_inside_idx, last_inside_idx), 10),
         speed_inside_km_day |->
             SpeedInside(InsideDistance(t, first_inside_idx, last_inside_idx),
                         DaysInside(inside_points)),
         last_inside_date |-> last.date,
         last_inside_lat |-> Round4(last.lat),
         last_inside_lon |-> Round4(last.lon),
         outcome |-> outcome,
         outcome_detail |-> OutcomeDetail(outcome, OutsideAfter(after)),
         days_tracked_after |-> Len(after),
         dest_lat |-> Round4(t[Len(t)].lat),
         dest_lon |-> Round4(t[Len(t)].lon),
         dest_date |-> t[Len(t)].date,
         dest_track |-> Track(after),
         net_south_km |-> 10 * (t[1].lat - t[Len(t)].lat)]

\* lines 109-124: the length guard, then the status of every cluster
AnalyzeEnter ==
    /\ apc = "idle"
    /\ IF TooShortForResponse(atraj)
       THEN /\ aresult' = NoneValue
            /\ apc' = "done"
            /\ UNCHANGED point_status
            /\ UNCHANGED atraj
       ELSE /\ point_status' = PointStatus(atraj)
            /\ atraj' = TrajAfterStatus(atraj)
            /\ apc' = "status"
            /\ UNCHANGED aresult
    /\ UNCHANGED <<boundary, inside_points, outcome, outside_analyze>>

\* lines 127-132: the inside clusters; None when there is none
AnalyzeInside ==
    /\ apc = "status"
    /\ inside_points' = InsidePoints(point_status)
    /\ IF InsidePoints(point_status) = << >>
       THEN /\ aresult' = NoneValue
            /\ apc' = "done"
       ELSE /\ apc' = "outcome"
            /\ UNCHANGED aresult
    /\ UNCHANGED <<atraj, boundary, point_status, outcome, outside_analyze>>

\* lines 135-152: the outcome
AnalyzeOutcome ==
    /\ apc = "outcome"
    /\ outcome' = Outcome(AfterLastInside(point_status),
                          OutsideAfter(AfterLastInside(point_status)))
    /\ apc' = "result"
    /\ UNCHANGED <<atraj, boundary, point_status, inside_points, aresult,
                   outside_analyze>>

\* lines 155-215: the metrics and the result
AnalyzeReturn ==
    /\ apc = "result"
    /\ aresult' = ResponseResult(atraj)
    /\ apc' = "done"
    /\ UNCHANGED <<atraj, boundary, point_status, inside_points, outcome,
                   outside_analyze>>

\* track_clusters and classify_trajectory are not running
TrackIdle ==
    /\ daily_clusters = [d \in {} |-> << >>]
    /\ used = {}
    /\ trajectories = << >>
    /\ sorted_dates = << >>
    /\ traj = << >>
    /\ current = NoCluster
    /\ start_idx = 1
    /\ cluster_idx = 1
    /\ next_idx = 0
    /\ pc = "idle"
    /\ discarded = {}
    /\ run = 0
    /\ prev_result = << >>

ClassifyIdle ==
    /\ ctraj = << >>
    /\ cresult = NoResult
    /\ cpc = "off"

\* Inputs of analyze_trajectory_response: n clusters on consecutive days,
\* moving south by 11 and 9 km in turn or zigzagging 11 km south and 9 km
\* north; the boundary holds any subset of the clusters' positions
AnalyzePatterns == {"south", "zigzag"}

PositionsOf(t) == {<<t[i].lat, t[i].lon>> : i \in 1..Len(t)}

InitAnalyze ==
    /\ \E n \in 0..MaxAnalyzeLen : \E pattern \in AnalyzePatterns :
         /\ atraj = BuildTraj(n, pattern, 10, 1, 4)
         /\ boundary \in SUBSET PositionsOf(BuildTraj(n, pattern, 10, 1, 4))
    /\ point_status = << >>
    /\ inside_points = << >>
    /\ outcome = "unset"
    /\ aresult = NoneValue
    /\ apc = "idle"
    /\ TrackIdle
    /\ ClassifyIdle
    /\ DetectIdle
    /\ ParkIdle
    /\ ExtraIdle

NextAnalyze ==
    \/ AnalyzeEnter
    \/ AnalyzeInside
    \/ AnalyzeOutcome
    \/ AnalyzeReturn

SpecAnalyze == InitAnalyze /\ [][NextAnalyze]_vars

---------------------------------------------------------------------------
\* analyze_trajectory (scripts/fire_processor_streaming.py and
\* scripts/fire_processor_optimized.py), and the analysers run on one
\* trajectory

\* Bound on the length of the trajectories given to every analyser
MaxCompareLen == 6

\* inside_pts
InsidePts(t) ==
    LET In(c) == contains(c.lat, c.lon)
    IN  SelectSeq(t, In)

\* 0-based indices of the clusters inside
InsideIdx(t) == {i - 1 : i \in {j \in 1..Len(t) : contains(t[j].lat, t[j].lon)}}

MaxOf(S) == CHOOSE m \in S : \A x \in S : x <= m

MinOf(S) == CHOOSE m \in S : \A x \in S : m <= x

\* 'centroids'
Centroids(t) ==
    [i \in 1..Len(t) |->
        [date |-> t[i].date, lat |-> Round4(t[i].lat), lon |-> Round4(t[i].lon),
         fires |-> t[i].fires]]

\* variant: the group has stopped inside when its first cluster is inside
StreamingOutcomeFromFirst(t) ==
    IF MinOf(InsideIdx(t)) = 0 THEN "STOPPED_INSIDE" ELSE "TRANSITED"

\* fire_processor_streaming: last_inside_idx == len(traj) - 1
StreamingOutcome(t) ==
    IF MaxOf(InsideIdx(t)) = Len(t) - 1 THEN "STOPPED_INSIDE" ELSE "TRANSITED"

\* fire_processor_optimized: after_exit, the clusters outside among
\* traj[last_in+1:]
AfterExit(t) ==
    LET last_in == MaxOf(InsideIdx(t))
        Out(c) == ~contains(c.lat, c.lon)
    IN  SelectSeq(SubSeq(t, last_in + 2, Len(t)), Out)

OptimizedOutcome(t) ==
    IF AfterExit(t) = << >> THEN "STOPPED_INSIDE" ELSE "TRANSITED"

\* analyze_trajectory of fire_processor_streaming
streaming_analyze_trajectory(t) ==
    IF Len(t) < 3 THEN NoneValue
    ELSE IF InsidePts(t) = << >> THEN NoneValue
    ELSE LET inside_pts == InsidePts(t)
         IN  [none |-> FALSE,
              origin_lat |-> Round4(t[1].lat),
              origin_lon |-> Round4(t[1].lon),
              origin_date |-> t[1].date,
              entry_date |-> inside_pts[1].date,
              days_burning_inside |-> Len(inside_pts),
              fires_inside |-> SumSeq(FiresOf(inside_pts)),
              last_inside_date |-> inside_pts[Len(inside_pts)].date,
              outcome |-> StreamingOutcome(t),
              dest_lat |-> Round4(t[Len(t)].lat),
              dest_lon |-> Round4(t[Len(t)].lon),
              dest_date |-> t[Len(t)].date,
              trajectory_days |-> Len(t),
              centroids |-> Centroids(t)]

\* analyze_trajectory of fire_processor_optimized
optimized_analyze_trajectory(t) ==
    IF Len(t) < 3 THEN NoneValue
    ELSE IF InsidePts(t) = << >> THEN NoneValue
    ELSE LET inside_pts == InsidePts(t)
         IN  [none |-> FALSE,
              trajectory_days |-> Len(t),
              total_fires |-> SumSeq(FiresOf(t)),
              origin_lat |-> Round4(t[1].lat),
              origin_lon |-> Round4(t[1].lon),
              origin_date |-> t[1].date,
              entry_date |-> inside_pts[1].date,
              days_burning_inside |-> Len(inside_pts),
              fires_inside |-> SumSeq(FiresOf(inside_pts)),
              last_inside_date |-> inside_pts[Len(inside_pts)].date,
              outcome |-> OptimizedOutcome(t),
              dest_lat |-> Round4(t[Len(t)].lat),
              dest_lon |-> Round4(t[Len(t)].lon),
              dest_date |-> t[Len(t)].date,
              centroids |-> Centroids(t)]

\* one call of fire_processor_streaming.analyze_trajectory(traj, boundary_prep)
StreamingAnalyze ==
    /\ spc = "idle"
    /\ sresult' = streaming_analyze_trajectory(atraj)
    /\ spc' = "done"
    /\ UNCHANGED <<track_vars, classify_vars, analyze_vars, detect_vars, park_vars,
                   oresult, opc, pipeline_vars, interleave_vars>>

\* one call of fire_processor_optimized.analyze_trajectory(traj, boundary_prep)
OptimizedAnalyze ==
    /\ opc = "idle"
    /\ oresult' = optimized_analyze_trajectory(atraj)
    /\ opc' = "done"
    /\ UNCHANGED <<track_vars, classify_vars, analyze_vars, detect_vars, park_vars,
                   sresult, spc, pipeline_vars, interleave_vars>>

\* Inputs: one trajectory of n clusters on consecutive days, moving south by
\* 11 and 9 km in turn or zigzagging, given to classify_trajectory and, with a
\* boundary holding any subset of the clusters' positions, to the three
\* analysers
InitTrajectory ==
    /\ \E n \in 0..MaxCompareLen : \E pattern \in AnalyzePatterns :
         /\ atraj = BuildTraj(n, pattern, 10, 1, 4)
         /\ ctraj = atraj
         /\ boundary \in SUBSET PositionsOf(BuildTraj(n, pattern, 10, 1, 4))
    /\ point_status = << >>
    /\ inside_points = << >>
    /\ outcome = "unset"
    /\ aresult = NoneValue
    /\ apc = "idle"
    /\ cresult = NoResult
    /\ cpc = "idle"
    /\ sresult = NoneValue
    /\ spc = "idle"
    /\ oresult = NoneValue
    /\ opc = "idle"
    /\ TrackIdle
    /\ DetectIdle
    /\ ParkIdle
    /\ PipelineIdle
    /\ InterleaveIdle

NextTrajectory ==
    \/ Classify
    \/ AnalyzeEnter
    \/ AnalyzeInside
    \/ AnalyzeOutcome
    \/ AnalyzeReturn
    \/ StreamingAnalyze
    \/ OptimizedAnalyze

SpecTrajectory == InitTrajectory /\ [][NextTrajectory]_vars

---------------------------------------------------------------------------
\* detect_daily_clusters (scripts/fire_group_detection.py)

\* Bound on the number of days of a detection table
MaxDetectDays == 3

\* Default parameters of detect_daily_clusters
eps_km == 15

min_fires == 8

\* min_samples = min_fires // 2
min_samples == min_fires \div 2

\* Rows of fires_df have acq_date, latitude, longitude (in 1/111 degree) and
\* frp.  DBSCAN(eps = eps_km / 111.0) compares Euclidean distances in degrees:
\* two rows are neighbours when they are at most eps_km units apart
WithinEps(a, b) ==
    (a.latitude - b.latitude) * (a.latitude - b.latitude)
        + (a.longitude - b.longitude) * (a.longitude - b.longitude) <= eps_km * eps_km

\* the eps-neighbourhood of row i, row i included
Neighbors(coords, i) == {j \in 1..Len(coords) : WithinEps(coords[i], coords[j])}

\* core samples: at least min_samples rows in the neighbourhood
IsCore(coords, i) == Cardinality(Neighbors(coords, i)) >= min_samples

\* the cluster grown from the rows S: the unlabelled neighbours of its core
\* rows join it until none is left
RECURSIVE Grow(_, _, _)
Grow(coords, labels, S) ==
    LET new == {v \in 1..Len(coords) :
                    /\ labels[v] = -1
                    /\ v \notin S
                    /\ \E u \in S : IsCore(coords, u) /\ v \in Neighbors(coords, u)}
    IN  IF new = {} THEN S ELSE Grow(coords, labels, S \cup new)

\* DBSCAN's scan: every unlabelled core row, in row order, starts the next
\* cluster; a row keeps the first label it gets
RECURSIVE DbscanLoop(_, _, _, _)
DbscanLoop(coords, labels, i, label_num) ==
    IF i > Len(coords) THEN labels
    ELSE IF labels[i] # -1 \/ ~IsCore(coords, i)
         THEN DbscanLoop(coords, labels, i + 1, label_num)
    ELSE LET members == Grow(coords, labels, {i})
         IN  DbscanLoop(coords,
                        [v \in 1..Len(coords) |->
                            IF v \in members THEN label_num ELSE labels[v]],
                        i + 1, label_num + 1)

\* clustering.labels_: -1 for noise
DBSCAN(coords) == DbscanLoop(coords, [v \in 1..Len(coords) |-> -1], 1, 0)

\* fires_df[fires_df['acq_date'] == date]
DayFires(df, date) ==
    LET OfDate(row) == row.acq_date = date
    IN  SelectSeq(df, OfDate)

TooFewFiresNever(day_fires) == FALSE

\* len(day_fires) < min_fires
TooFewFires(day_fires) == Len(day_fires) < min_fires

\* the labels that make a cluster: not (cid == -1)
KeepLabel(cid) == cid # -1

\* set(clustering.labels_) as the loop visits it, the kept labels ascending
RECURSIVE LabelsAscending(_)
LabelsAscending(S) ==
    IF S = {} THEN << >>
    ELSE LET m == CHOOSE x \in S : \A y \in S : x <= y
         IN  <<m>> \o LabelsAscending(S \ {m})

KeptLabels(labels) ==
    LET Keep(cid) == KeepLabel(cid)
    IN  SelectSeq(LabelsAscending({labels[v] : v \in DOMAIN labels}), Keep)

MaskAtLeast(labels, cid) == {v \in DOMAIN labels : labels[v] >= cid}

\* mask = clustering.labels_ == cid, as the set of the positions it selects
Mask(labels, cid) == {v \in DOMAIN labels : labels[v] = cid}

RECURSIVE SumOver(_, _)
SumOver(f, S) ==
    IF S = {} THEN 0
    ELSE LET v == CHOOSE x \in S : TRUE
         IN  f[v] + SumOver(f, S \ {v})

MaxOver(f, S) == CHOOSE x \in {f[v] : v \in S} : \A y \in {f[v] : v \in S} : x >= y

MinOver(f, S) == CHOOSE x \in {f[v] : v \in S} : \A y \in {f[v] : v \in S} : x <= y

\* the record appended for the rows cf = day_fires[mask]; the means are
\* rounded to the resolution of the model
ClusterRecord(date, cid, day_fires, mask) ==
    LET lats == [v \in 1..Len(day_fires) |-> day_fires[v].latitude]
        lons == [v \in 1..Len(day_fires) |-> day_fires[v].longitude]
        frps == [v \in 1..Len(day_fires) |-> day_fires[v].frp]
    IN  [date |-> date,
         cid |-> cid,
         lat |-> RoundDiv(SumOver(lats, mask), Cardinality(mask)),
         lon |-> RoundDiv(SumOver(lons, mask), Cardinality(mask)),
         lat_min |-> MinOver(lats, mask),
         lat_max |-> MaxOver(lats, mask),
         fires |-> Cardinality(mask),
         frp |-> SumOver(frps, mask),
         spread_km |-> Max2(MaxOver(lats, mask) - MinOver(lats, mask),
                            MaxOver(lons, mask) - MinOver(lons, mask))]

\* clusters of one day
DayClusters(date, day_fires) ==
    LET labels == DBSCAN(day_fires)
        kept == KeptLabels(labels)
    IN  [k \in 1..Len(kept) |-> ClusterRecord(date, kept[k], day_fires, Mask(labels, kept[k]))]

\* the masks of the clusters of one day, in the order of the clusters
DayMasks(day_fires) ==
    LET labels == DBSCAN(day_fires)
        kept == KeptLabels(labels)
    IN  [k \in 1..Len(kept) |-> Mask(labels, kept[k])]

\* if clusters:
HasClusters(clusters) == clusters # << >>

\* sorted(fires_df['acq_date'].unique())
UniqueDates(df) == SortDates({df[v].acq_date : v \in 1..Len(df)})

\* f with the entry d -> v added
Put(f, d, v) == [x \in DOMAIN f \cup {d} |-> IF x = d THEN v ELSE f[x]]

\* entry of detect_daily_clusters
DetectCall ==
    /\ dpc = "idle"
    /\ detect_result' = [d \in {} |-> << >>]
    /\ masks' = [d \in {} |-> << >>]
    /\ attempted' = {}
    /\ detect_dates' = UniqueDates(fires_df)
    /\ detect_idx' = 1
    /\ dpc' = "loop"
    /\ UNCHANGED <<fires_df, outside_detect>>

\* a day with fewer than min_fires rows: continue
DetectSkipDay ==
    /\ dpc = "loop"
    /\ detect_idx <= Len(detect_dates)
    /\ TooFewFires(DayFires(fires_df, detect_dates[detect_idx]))
    /\ detect_idx' = detect_idx + 1
    /\ UNCHANGED <<fires_df, detect_result, masks, attempted, detect_dates, dpc,
                   outside_detect>>

\* a day that is clustered; its clusters are filed under the date if there
\* are any
DetectClusterDay ==
    /\ dpc = "loop"
    /\ detect_idx <= Len(detect_dates)
    /\ LET date == detect_dates[detect_idx]
           day_fires == DayFires(fires_df, date)
           clusters == DayClusters(date, day_fires)
       IN  /\ ~TooFewFires(day_fires)
           /\ attempted' = attempted \cup {date}
           /\ IF HasClusters(clusters)
              THEN /\ detect_result' = Put(detect_result, date, clusters)
                   /\ masks' = Put(masks, date, DayMasks(day_fires))
              ELSE UNCHANGED <<detect_result, masks>>
    /\ detect_idx' = detect_idx + 1
    /\ UNCHANGED <<fires_df, detect_dates, dpc, outside_detect>>

\* return daily_clusters
DetectReturn ==
    /\ dpc = "loop"
    /\ detect_idx > Len(detect_dates)
    /\ dpc' = "done"
    /\ UNCHANGED <<fires_df, detect_result, masks, attempted, detect_dates, detect_idx,
                   outside_detect>>

\* Inputs of detect_daily_clusters.  A day is a list of sites, each with a
\* number of detections at the same place, along one meridian:
\*   DayFew     7 detections at one place: fewer than min_fires
\*   DaySparse  8 detections, two at each of four places 20 km apart: no row
\*              has min_samples neighbours
\*   DayShared  9 detections: two groups 28 km apart and a row between them
\*              within eps of one core row of each
\*   DayOne     8 detections at one place and one 100 km away
\*   DayTwo     4 detections at each of two places 100 km apart
DayFew == << [lat |-> 666, lon |-> 0, n |-> 7] >>

DaySparse ==
    << [lat |-> 666, lon |-> 0, n |-> 2], [lat |-> 686, lon |-> 0, n |-> 2],
       [lat |-> 706, lon |-> 0, n |-> 2], [lat |-> 726, lon |-> 0, n |-> 2] >>

DayShared ==
    << [lat |-> 656, lon |-> 0, n |-> 3], [lat |-> 666, lon |-> 0, n |-> 1],
       [lat |-> 680, lon |-> 0, n |-> 1], [lat |-> 694, lon |-> 0, n |-> 1],
       [lat |-> 704, lon |-> 0, n |-> 3] >>

DayOne == << [lat |-> 666, lon |-> 0, n |-> 8], [lat |-> 766, lon |-> 0, n |-> 1] >>

DayTwo == << [lat |-> 666, lon |-> 0, n |-> 4], [lat |-> 766, lon |-> 0, n |-> 4] >>

DayConfigs == {DayFew, DaySparse, DayShared, DayOne, DayTwo}

\* the rows of one day: n rows for each site, in the order of the sites
RECURSIVE Rows(_, _)
Rows(date, sites) ==
    IF sites = << >> THEN << >>
    ELSE [k \in 1..Head(sites).n |->
             [acq_date |-> date, latitude |-> Head(sites).lat,
              longitude |-> Head(sites).lon, frp |-> 2 + k]]
         \o Rows(date, Tail(sites))

\* the table of the days 1..n, day i on the i-th date from 29 January on
RECURSIVE Table(_, _)
Table(n, cfg) ==
    IF n = 0 THEN << >>
    ELSE Table(n - 1, cfg) \o Rows(FromOrdinal(28 + n, 1), cfg[n])

Reverse(q) == [i \in 1..Len(q) |-> q[Len(q) + 1 - i]]

InitDetect ==
    /\ \E n \in 0..MaxDetectDays : \E cfg \in [1..n -> DayConfigs] :
         \E reversed \in BOOLEAN :
           fires_df = IF reversed THEN Reverse(Table(n, cfg)) ELSE Table(n, cfg)
    /\ detect_result = [d \in {} |-> << >>]
    /\ masks = [d \in {} |-> << >>]
    /\ attempted = {}
    /\ detect_dates = << >>
    /\ detect_idx = 1
    /\ dpc = "idle"
    /\ TrackIdle
    /\ ClassifyIdle
    /\ AnalyzeIdle
    /\ ParkIdle
    /\ ExtraIdle

NextDetect ==
    \/ DetectCall
    \/ DetectSkipDay
    \/ DetectClusterDay
    \/ DetectReturn

SpecDetect == InitDetect /\ [][NextDetect]_vars

---------------------------------------------------------------------------
\* analyze_park (scripts/analyze_group_infractions.py)

\* Bound on the number of days of fire data of a park
MaxParkDays == 6

\* if fires is None or len(fires) < 100
min_park_fires == 100

\* if len(daily_clusters) < 5
min_active_days == 5

\* the (None, None) of get_park_boundary
NoBoundary == [none |-> TRUE, points |-> {}]

\* get_park_boundary: None without a geometry and when shape(geom) raises
\* (the bare except), else the prepared shape
get_park_boundary(p) ==
    IF p.geometry = "missing" THEN NoBoundary
    ELSE IF p.geometry = "malformed" THEN NoBoundary
    ELSE [none |-> FALSE, points |-> p.points]

BoundaryIsNoneIgnored(b) == FALSE

\* if boundary is None
BoundaryIsNone(b) == b.none

\* 'management' in typ
IsManagement(typ) == typ \in {"management_fast", "management_vehicle"}

\* the interaction record with group_type and avg_speed_km_day set
WithGroup(interaction, typ, avg_speed) ==
    [k \in DOMAIN interaction \cup {"group_type", "avg_speed_km_day"} |->
        IF k = "group_type" THEN typ
        ELSE IF k = "avg_speed_km_day" THEN avg_speed
        ELSE interaction[k]]

\* metrics.get('avg_speed_km_day', 0)
AvgSpeedOf(metrics) ==
    IF "avg_speed_km_day" \in DOMAIN metrics THEN metrics.avg_speed_km_day ELSE 0

\* variant: the floor of 0.5 km/day is not applied
PlausibleNoFloor(avg_speed) == avg_speed <= 300

\* 0.5 <= avg_speed_km_day <= 30, the speed in tenths
Plausible(avg_speed) == 5 <= avg_speed /\ avg_speed <= 300

\* q in ascending order
RECURSIVE SortAscending(_)
SortAscending(q) ==
    IF q = << >> THEN << >>
    ELSE LET i == CHOOSE j \in 1..Len(q) : \A k \in 1..Len(q) : q[j] <= q[k]
         IN  <<q[i]>> \o SortAscending([k \in 1..(Len(q) - 1) |->
                                           IF k < i THEN q[k] ELSE q[k + 1]])

\* round(np.median(q), 1), in tenths
MedianTenths(q) ==
    LET s == SortAscending(q)
        n == Len(s)
    IN  IF n % 2 = 1 THEN 10 * s[(n + 1) \div 2]
        ELSE 5 * (s[n \div 2] + s[n \div 2 + 1])

\* round(np.mean(q), 1), in tenths
MeanTenths(q) == RoundDiv(10 * SumSeq(q), Len(q))

\* the summary of the records kept
Summary(kept) ==
    LET IsTranshumance(t) == t.group_type \in {"transhumance", "transhumance_slow"}
        IsHerder(t) == t.group_type \in {"herder_fast", "herder_local"}
        Transited(t) == t.outcome = "TRANSITED"
        StoppedInside(t) == t.outcome = "STOPPED_INSIDE"
        StoppedAfter(t) == t.outcome = "STOPPED_AFTER_EXIT"
        days_list == [i \in 1..Len(kept) |-> kept[i].days_burning_inside]
    IN  [total_groups |-> Len(kept),
         transhumance_groups |-> Len(SelectSeq(kept, IsTranshumance)),
         herder_groups |-> Len(SelectSeq(kept, IsHerder)),
         avg_days_burning |-> MeanTenths(days_list),
         median_days_burning |-> MedianTenths(days_list),
         max_days_burning |-> MaxSeq(days_list),
         total_fires_inside |-> SumSeq([i \in 1..Len(kept) |-> kept[i].fires_inside]),
         groups_transited |-> Len(SelectSeq(kept, Transited)),
         groups_stopped_inside |-> Len(SelectSeq(kept, StoppedInside)),
         groups_stopped_after |-> Len(SelectSeq(kept, StoppedAfter)),
         avg_days_tracked_before |->
             MeanTenths([i \in 1..Len(kept) |-> kept[i].days_tracked_before]),
         avg_days_tracked_after |->
             MeanTenths([i \in 1..Len(kept) |-> kept[i].days_tracked_after])]

\* lines 219-222: the boundary; None without one
ParkGetBoundary ==
    /\ ppc = "start"
    /\ calls' = calls \cup {"get_park_boundary"}
    /\ IF BoundaryIsNone(get_park_boundary(park))
       THEN /\ presult' = NoneValue
            /\ ppc' = "done"
            /\ UNCHANGED boundary
       ELSE /\ boundary' = get_park_boundary(park).points
            /\ ppc' = "load"
            /\ UNCHANGED presult
    /\ UNCHANGED <<park, fire_data, fires, infraction_trajs, traj_idx, atraj, point_status,
                   inside_points, outcome, aresult, apc, track_vars, classify_vars,
                   detect_vars,
                   extra_vars>>

\* lines 224-228: the fire data; None without at least 100 rows
ParkLoadFires ==
    /\ ppc = "load"
    /\ calls' = calls \cup {"load_fire_data_for_region"}
    /\ fires' = fire_data
    /\ IF ~fire_data.loaded \/ Len(fire_data.rows) < min_park_fires
       THEN presult' = NoneValue /\ ppc' = "done"
       ELSE ppc' = "detect" /\ UNCHANGED presult
    /\ UNCHANGED <<park, fire_data, infraction_trajs, traj_idx, track_vars, classify_vars,
                   analyze_vars, detect_vars,
                   extra_vars>>

\* line 230: detect_daily_clusters is called
ParkCallDetect ==
    /\ ppc = "detect"
    /\ calls' = calls \cup {"detect_daily_clusters"}
    /\ fires_df' = fires.rows
    /\ dpc' = "idle"
    /\ ppc' = "detecting"
    /\ UNCHANGED <<park, fire_data, fires, infraction_trajs, traj_idx, presult,
                   detect_result, masks, attempted, detect_dates, detect_idx,
                   track_vars, classify_vars, analyze_vars,
                   extra_vars>>

\* the steps of detect_daily_clusters within analyze_park
ParkDetectStep == ppc = "detecting" /\ NextDetect

\* lines 231-234: None with fewer than 5 dates; else track_clusters is called
ParkCallTrack ==
    /\ ppc = "detecting"
    /\ dpc = "done"
    /\ IF Cardinality(DOMAIN detect_result) < min_active_days
       THEN /\ presult' = NoneValue
            /\ ppc' = "done"
            /\ UNCHANGED <<daily_clusters, calls>>
       ELSE /\ daily_clusters' = detect_result
            /\ calls' = calls \cup {"track_clusters"}
            /\ ppc' = "tracking"
            /\ UNCHANGED presult
    /\ UNCHANGED <<park, fire_data, fires, infraction_trajs, traj_idx, used, trajectories,
                   sorted_dates, traj, current, start_idx, cluster_idx, next_idx, pc,
                   discarded, run, prev_result, classify_vars, analyze_vars, detect_vars,
                   extra_vars>>

\* the steps of track_clusters within analyze_park
ParkTrackStep == ppc = "tracking" /\ pc # "done" /\ Next

\* lines 235-238: None without trajectories; else the loop starts
ParkStartLoop ==
    /\ ppc = "tracking"
    /\ pc = "done"
    /\ IF trajectories = << >>
       THEN presult' = NoneValue /\ ppc' = "done"
       ELSE ppc' = "loop" /\ UNCHANGED presult
    /\ infraction_trajs' = << >>
    /\ traj_idx' = 1
    /\ UNCHANGED <<park, fire_data, fires, calls, track_vars, classify_vars, analyze_vars,
                   detect_vars,
                   extra_vars>>

\* lines 239-246: the trajectory is classified; a management fire is skipped,
\* any other trajectory goes to analyze_trajectory_response
ParkClassify ==
    /\ ppc = "loop"
    /\ traj_idx <= Len(trajectories)
    /\ ctraj' = trajectories[traj_idx]
    /\ cresult' = classify_trajectory(trajectories[traj_idx])
    /\ IF IsManagement(classify_trajectory(trajectories[traj_idx]).label)
       THEN /\ traj_idx' = traj_idx + 1
            /\ calls' = calls \cup {"classify_trajectory"}
            /\ UNCHANGED <<ppc, analyze_vars>>
       ELSE /\ calls' = calls \cup {"classify_trajectory", "analyze_trajectory_response"}
            /\ atraj' = trajectories[traj_idx]
            /\ point_status' = << >>
            /\ inside_points' = << >>
            /\ outcome' = "unset"
            /\ aresult' = NoneValue
            /\ apc' = "idle"
            /\ ppc' = "analyzing"
            /\ UNCHANGED <<traj_idx, boundary>>
    /\ UNCHANGED <<park, fire_data, fires, infraction_trajs, presult, cpc, track_vars,
                   detect_vars,
                   extra_vars>>

\* the steps of analyze_trajectory_response within analyze_park
ParkAnalyzeStep == ppc = "analyzing" /\ NextAnalyze

\* lines 248-254: an interaction with a plausible speed is kept
ParkCollect ==
    /\ ppc = "analyzing"
    /\ apc = "done"
    /\ infraction_trajs' =
           IF ~IsNone(aresult) /\ Plausible(AvgSpeedOf(cresult.metrics))
           THEN Append(infraction_trajs,
                       WithGroup(aresult, cresult.label, AvgSpeedOf(cresult.metrics)))
           ELSE infraction_trajs
    /\ traj_idx' = traj_idx + 1
    /\ ppc' = "loop"
    /\ UNCHANGED <<park, fire_data, fires, presult, calls, track_vars, classify_vars,
                   analyze_vars, detect_vars,
                   extra_vars>>

\* lines 256-288: None without a record, else the records and their summary
ParkReturn ==
    /\ ppc = "loop"
    /\ traj_idx > Len(trajectories)
    /\ presult' = IF infraction_trajs = << >> THEN NoneValue
                  ELSE [none |-> FALSE, trajectories |-> infraction_trajs,
                        summary |-> Summary(infraction_trajs)]
    /\ ppc' = "done"
    /\ UNCHANGED <<park, fire_data, fires, infraction_trajs, traj_idx, calls, track_vars,
                   classify_vars, analyze_vars, detect_vars,
                   extra_vars>>

\* Inputs of analyze_park.  The fire data of a park is one group of `per`
\* detections a day on consecutive days from 29 January on, at one place
\* ("south": moving 11 km south a day, "static": not moving, "fast": moving
\* 20 km south a day, "creep": moving one unit of longitude east every other
\* day) or spread over four places 14 km apart ("vehicle", moving 20 km south
\* a day); the geometry is missing, malformed, or a polygon that contains the
\* points of the meridian between two latitudes
ParkPatterns == {"south", "static", "fast", "creep", "vehicle"}

RowsPerDay == {20, 32}

ParkBands == {<<600, 640>>, <<620, 640>>, <<0, 1000>>, <<1, 0>>}

ParkStep(pattern) ==
    IF pattern = "south" THEN 11
    ELSE IF pattern \in {"static", "creep"} THEN 0 ELSE 20

\* the longitude of the group on day n
ParkLon(pattern, n) == IF pattern = "creep" THEN n \div 2 ELSE 0

ParkDaySites(lat, lon, pattern, per) ==
    IF pattern = "vehicle"
    THEN [k \in 1..4 |-> [lat |-> lat + 14 * (k - 1), lon |-> lon, n |-> per \div 4]]
    ELSE << [lat |-> lat, lon |-> lon, n |-> per] >>

RECURSIVE ParkTable(_, _, _)
ParkTable(n, pattern, per) ==
    IF n = 0 THEN << >>
    ELSE ParkTable(n - 1, pattern, per)
         \o Rows(FromOrdinal(28 + n, 1),
                 ParkDaySites(666 - ParkStep(pattern) * (n - 1), ParkLon(pattern, n),
                              pattern, per))

Parks ==
    {[geometry |-> g, points |-> {}] : g \in {"missing", "malformed"}}
        \cup {[geometry |-> "polygon", points |-> {<<la, 0>> : la \in b[1]..b[2]}] :
                  b \in ParkBands}

FireData ==
    {NoTable} \cup
        {[loaded |-> TRUE, rows |-> ParkTable(n, pattern, per)] :
             n \in 4..MaxParkDays, pattern \in ParkPatterns, per \in RowsPerDay}

InitPark ==
    /\ park \in Parks
    /\ fire_data \in FireData
    /\ fires = NoTable
    /\ infraction_trajs = << >>
    /\ traj_idx = 1
    /\ presult = NoneValue
    /\ calls = {}
    /\ ppc = "start"
    /\ TrackIdle
    /\ ClassifyIdle
    /\ AnalyzeIdle
    /\ DetectIdle
    /\ ExtraIdle

NextPark ==
    \/ ParkGetBoundary
    \/ ParkLoadFires
    \/ ParkCallDetect
    \/ ParkDetectStep
    \/ ParkCallTrack
    \/ ParkTrackStep
    \/ ParkStartLoop
    \/ ParkClassify
    \/ ParkAnalyzeStep
    \/ ParkCollect
    \/ ParkReturn

SpecPark == InitPark /\ [][NextPark]_vars

---------------------------------------------------------------------------
\* analyze_park (scripts/fire_group_detection.py): the pipeline of one park

\* Bound on the number of days of the pipeline's fire data
MaxPipelineDays == 10

\* line 214: detect_daily_clusters(fire_data) is called
PipeCallDetect ==
    /\ gpc = "start"
    /\ dpc' = "idle"
    /\ gpc' = "detecting"
    /\ UNCHANGED <<fires_df, detect_result, masks, attempted, detect_dates, detect_idx,
                   results, group_idx, track_vars, classify_vars, analyze_vars, park_vars,
                   variant_vars, interleave_vars>>

\* the steps of detect_daily_clusters within the pipeline
PipeDetectStep == gpc = "detecting" /\ NextDetect

\* line 215: track_clusters(daily_clusters) is called
PipeCallTrack ==
    /\ gpc = "detecting"
    /\ dpc = "done"
    /\ daily_clusters' = detect_result
    /\ gpc' = "tracking"
    /\ UNCHANGED <<used, trajectories, sorted_dates, traj, current, start_idx, cluster_idx,
                   next_idx, pc, discarded, run, prev_result, results, group_idx,
                   classify_vars, analyze_vars, detect_vars, park_vars, variant_vars,
                   interleave_vars>>

\* the steps of track_clusters within the pipeline
PipeTrackStep == gpc = "tracking" /\ pc # "done" /\ Next

\* lines 217-224: the dict results, its groups empty
PipeResults ==
    /\ gpc = "tracking"
    /\ pc = "done"
    /\ results' = [none |-> FALSE,
                   total_fires |-> Len(fires_df),
                   active_days |-> Cardinality(DOMAIN daily_clusters),
                   trajectories_detected |-> Len(trajectories),
                   groups |-> [typ \in {} |-> << >>]]
    /\ group_idx' = 1
    /\ gpc' = "loop"
    /\ UNCHANGED <<track_vars, classify_vars, analyze_vars, detect_vars, park_vars,
                   variant_vars, interleave_vars>>

\* results['groups'][typ].append(metrics), groups being a defaultdict(list)
AppendGroup(groups, typ, metrics) ==
    Put(groups, typ, Append(IF typ \in DOMAIN groups THEN groups[typ] ELSE << >>, metrics))

\* lines 226-228: one trajectory is classified and filed under its type
PipeClassify ==
    /\ gpc = "loop"
    /\ group_idx <= Len(trajectories)
    /\ ctraj' = trajectories[group_idx]
    /\ cresult' = classify_trajectory(trajectories[group_idx])
    /\ results' = [results EXCEPT !.groups =
                       AppendGroup(@, classify_trajectory(trajectories[group_idx]).label,
                                   classify_trajectory(trajectories[group_idx]).metrics)]
    /\ group_idx' = group_idx + 1
    /\ UNCHANGED <<gpc, cpc, track_vars, analyze_vars, detect_vars, park_vars,
                   variant_vars, interleave_vars>>

\* lines 231-233: return results
PipeReturn ==
    /\ gpc = "loop"
    /\ group_idx > Len(trajectories)
    /\ gpc' = "done"
    /\ UNCHANGED <<results, group_idx, track_vars, classify_vars, analyze_vars,
                   detect_vars, park_vars, variant_vars, interleave_vars>>

\* Inputs of the pipeline.  The fire data is one group of min_fires
\* detections a day at one place, on consecutive days from 29 January on,
\* moving step km south a day; on a quiet day the group leaves one detection
\* less, too few for a cluster
PipelineSteps == {0, 5, 11, 24, 26, 31}

QuietDays == { {}, {2}, {3, 4}, {3, 4, 5} }

RECURSIVE PipelineTable(_, _, _)
PipelineTable(n, step, quiet) ==
    IF n = 0 THEN << >>
    ELSE PipelineTable(n - 1, step, quiet)
         \o Rows(FromOrdinal(28 + n, 1),
                 << [lat |-> 666 - step * (n - 1), lon |-> 0,
                     n |-> IF n \in quiet THEN min_fires - 1 ELSE min_fires] >>)

InitPipeline ==
    /\ \E n \in 0..MaxPipelineDays : \E step \in PipelineSteps : \E quiet \in QuietDays :
         fires_df = PipelineTable(n, step, quiet)
    /\ detect_result = [d \in {} |-> << >>]
    /\ masks = [d \in {} |-> << >>]
    /\ attempted = {}
    /\ detect_dates = << >>
    /\ detect_idx = 1
    /\ dpc = "off"
    /\ results = NoneValue
    /\ group_idx = 1
    /\ gpc = "start"
    /\ TrackIdle
    /\ ClassifyIdle
    /\ AnalyzeIdle
    /\ ParkIdle
    /\ VariantsIdle
    /\ InterleaveIdle

NextPipeline ==
    \/ PipeCallDetect
    \/ PipeDetectStep
    \/ PipeCallTrack
    \/ PipeTrackStep
    \/ PipeResults
    \/ PipeClassify
    \/ PipeReturn

SpecPipeline == InitPipeline /\ [][NextPipeline]_vars

---------------------------------------------------------------------------
\* Two invocations of track_clusters whose steps interleave.  The variables of
\* track_clusters hold the invocation that is running, `suspended` the
\* arguments and locals of the other one

\* Bound on the number of dates of the maps of the two invocations
MaxInterleaveDays == 5

\* the arguments and locals of the running invocation; mixed records that an
\* invocation has been suspended between its entry and its return
Locals(was_mixed) ==
    [daily_clusters |-> daily_clusters, used |-> used, trajectories |-> trajectories,
     sorted_dates |-> sorted_dates, traj |-> traj, current |-> current,
     start_idx |-> start_idx, cluster_idx |-> cluster_idx, next_idx |-> next_idx,
     pc |-> pc, discarded |-> discarded, run |-> run, prev_result |-> prev_result,
     mixed |-> was_mixed]

\* variant: used is one set for both invocations, the one resumed finds it as
\* the other left it
UsedOnResumeShared(own, left) == left

\* used = set() is a local of the call (line 83): the invocation resumed
\* finds its own set
UsedOnResume(own, left) == own

\* the running invocation is suspended and the other one resumed; within a
\* call this happens during the first call of an invocation only
Switch ==
    /\ active # 0
    /\ pc \in {"idle", "done"} \/ run = 1
    /\ suspended' = Locals(suspended.mixed \/ pc \notin {"idle", "done"})
    /\ active' = 3 - active
    /\ daily_clusters' = suspended.daily_clusters
    /\ used' = UsedOnResume(suspended.used, used)
    /\ trajectories' = suspended.trajectories
    /\ sorted_dates' = suspended.sorted_dates
    /\ traj' = suspended.traj
    /\ current' = suspended.current
    /\ start_idx' = suspended.start_idx
    /\ cluster_idx' = suspended.cluster_idx
    /\ next_idx' = suspended.next_idx
    /\ pc' = suspended.pc
    /\ discarded' = suspended.discarded
    /\ run' = suspended.run
    /\ prev_result' = suspended.prev_result
    /\ UNCHANGED <<classify_vars, analyze_vars, detect_vars, park_vars, variant_vars,
                   pipeline_vars>>

\* a step of the running invocation; its second call starts only while the
\* other invocation is not within a call, and then runs alone
InvocationStep ==
    /\ active # 0
    /\ (pc = "done") => suspended.pc \in {"idle", "done"}
    /\ Next

\* Inputs: the maps of two parks over the same dates, the layouts of the days
\* repeating a cycle
LayoutCycles ==
    { << <<ClusterX>> >>, << <<ClusterN, ClusterS>> >>,
      << <<ClusterX>>, <<ClusterN, ClusterS>> >>, << <<ClusterX>>, <<ClusterZ>> >> }

CycleInput(n, cycle) ==
    MkInput(n, [i \in 1..n |-> cycle[((i - 1) % Len(cycle)) + 1]], 0, 3)

InterleaveInputs ==
    {CycleInput(n, cycle) :
         n \in (MaxInterleaveDays - 1)..MaxInterleaveDays, cycle \in LayoutCycles}

InitInterleaved ==
    /\ daily_clusters \in InterleaveInputs
    /\ used = {}
    /\ trajectories = << >>
    /\ sorted_dates = << >>
    /\ traj = << >>
    /\ current = NoCluster
    /\ start_idx = 1
    /\ cluster_idx = 1
    /\ next_idx = 0
    /\ pc = "idle"
    /\ discarded = {}
    /\ run = 0
    /\ prev_result = << >>
    /\ active = 1
    /\ \E other \in InterleaveInputs :
         suspended = [daily_clusters |-> other, used |-> {}, trajectories |-> << >>,
                      sorted_dates |-> << >>, traj |-> << >>, current |-> NoCluster,
                      start_idx |-> 1, cluster_idx |-> 1, next_idx |-> 0, pc |-> "idle",
                      discarded |-> {}, run |-> 0, prev_result |-> << >>,
                      mixed |-> FALSE]
    /\ ClassifyIdle
    /\ AnalyzeIdle
    /\ DetectIdle
    /\ ParkIdle
    /\ VariantsIdle
    /\ PipelineIdle

NextInterleaved ==
    \/ InvocationStep
    \/ Switch

SpecInterleaved == InitInterleaved /\ [][NextInterleaved]_vars

---------------------------------------------------------------------------
\* track_clusters run to its end: the interpreter goes on while a statement
\* is left to execute

MaxChainDays == 5

\* Inputs: the layouts of the days repeating a cycle, with one gap of
\* long_gap days after the first day or none
ChainInputs ==
    {MkInput(n, [i \in 1..n |-> cycle[((i - 1) % Len(cycle)) + 1]], long_pos, long_gap) :
         n \in (MaxChainDays - 1)..MaxChainDays, cycle \in LayoutCycles,
         long_pos \in 0..1, long_gap \in LongGaps}

InitChains ==
    /\ daily_clusters \in ChainInputs
    /\ used = {}
    /\ trajectories = << >>
    /\ sorted_dates = << >>
    /\ traj = << >>
    /\ current = NoCluster
    /\ start_idx = 1
    /\ cluster_idx = 1
    /\ next_idx = 0
    /\ pc = "idle"
    /\ discarded = {}
    /\ run = 0
    /\ prev_result = << >>
    /\ ctraj = << >>
    /\ cresult = NoResult
    /\ cpc = "idle"
    /\ OtherIdle

SpecChains == InitChains /\ [][Next]_vars /\ WF_vars(Next)

---------------------------------------------------------------------------
\* Properties of track_clusters

TrajKeys(t) == {Key(t[i]) : i \in 1..Len(t)}

\* the keys of the chain under construction
ActiveChainKeys == IF pc \in {"extend", "close"} THEN TrajKeys(traj) ELSE {}

\* C1: the returned trajectories are pairwise disjoint, and no cluster
\* (date, cid) appears twice in one trajectory
C1_NoClusterReuse ==
    /\ \A a, b \in 1..Len(trajectories) :
         a # b => TrajKeys(trajectories[a]) \cap TrajKeys(trajectories[b]) = {}
    /\ \A a \in 1..Len(trajectories) :
         \A i, j \in 1..Len(trajectories[a]) :
           i # j => Key(trajectories[a][i]) # Key(trajectories[a][j])

\* a call returned two trajectories
C1_Witness == pc = "done" /\ Len(trajectories) >= 2

\* C2: along every returned trajectory the dates strictly increase
C2_DatesStrictlyIncrease ==
    \A a \in 1..Len(trajectories) :
      \A i \in 1..(Len(trajectories[a]) - 1) :
        DateLess(trajectories[a][i].date, trajectories[a][i + 1].date)

\* a returned trajectory whose dates each had a second cluster to offer
C2_Witness ==
    \E a \in 1..Len(trajectories) :
      \A i \in 1..Len(trajectories[a]) :
        Len(daily_clusters[trajectories[a][i].date]) >= 2

\* C3: consecutive clusters of a returned trajectory are at most max_gap_days
\* calendar days apart
C3_GapWithinMax ==
    \A a \in 1..Len(trajectories) :
      \A i \in 1..(Len(trajectories[a]) - 1) :
        to_datetime(trajectories[a][i + 1].date) - to_datetime(trajectories[a][i].date)
            <= max_gap_days

\* a returned trajectory with a link across exactly max_gap_days whose total
\* span exceeds max_gap_days
C3_Witness ==
    \E a \in 1..Len(trajectories) :
      LET t == trajectories[a]
      IN  /\ to_datetime(t[Len(t)].date) - to_datetime(t[1].date) > max_gap_days
          /\ \E i \in 1..(Len(t) - 1) :
               to_datetime(t[i + 1].date) - to_datetime(t[i].date) = max_gap_days

\* C4: every returned trajectory has at least min_trajectory_length (5)
\* clusters, and closing a shorter chain returns nothing
C4_MinLength ==
    /\ \A a \in 1..Len(trajectories) : Len(trajectories[a]) >= 5
    /\ (pc = "outer" /\ traj # << >> /\ Len(traj) < 5) =>
         \A a \in 1..Len(trajectories) : trajectories[a] # traj

\* a chain of length 1 was closed and dropped, and a trajectory was returned
C4_Witness ==
    /\ pc = "done"
    /\ Len(trajectories) >= 1
    /\ \E d \in DOMAIN daily_clusters : \E i \in 1..Len(daily_clusters[d]) :
         /\ Key(daily_clusters[d][i]) \in discarded
         /\ Len(traj) = 1
         /\ traj[1] = daily_clusters[d][i]

\* C5: the clusters of a dropped chain stay used; none of them is in the
\* chain under construction or in a returned trajectory
C5_DiscardedStayUsed ==
    \A k \in discarded :
      /\ k \in used
      /\ k \notin ActiveChainKeys
      /\ \A a \in 1..Len(trajectories) : k \notin TrajKeys(trajectories[a])

\* the outer loop stands at a cluster of a dropped chain, while a later chain
\* is about to look for its next start
C5_Witness ==
    /\ pc = "outer"
    /\ start_idx <= Len(sorted_dates)
    /\ Key(daily_clusters[sorted_dates[start_idx]][cluster_idx]) \in discarded

\* the claim's score of candidate x seen from cluster c, in 1/11100 km
ClaimScore(c, x) ==
    111 * distance_km(c.lat, c.lon, x.lat, x.lon) - 500 * (c.lat - x.lat)
        + (22200 * Max2(c.fires, x.fires)) \div Min2(c.fires, x.fires)

\* x is unused and within max_link_km of c
Eligible(c, x) ==
    /\ Key(x) \notin used
    /\ distance_km(c.lat, c.lon, x.lat, x.lon) <= 2500

\* C6: every extension step links a cluster b of the earliest later date, at
\* most max_gap_days after the current cluster c, that has an eligible
\* cluster, and b has minimal score among that date's eligible clusters
C6_EarliestDateBestScore ==
    [][(pc = "extend" /\ Len(traj') = Len(traj) + 1) =>
        LET c == current
            b == traj'[Len(traj')]
        IN  /\ DateLess(c.date, b.date)
            /\ to_datetime(b.date) - to_datetime(c.date) <= 3
            /\ Eligible(c, b)
            /\ \A d \in DOMAIN daily_clusters :
                 (DateLess(c.date, d) /\ DateLess(d, b.date)) =>
                   \A i \in 1..Len(daily_clusters[d]) : ~Eligible(c, daily_clusters[d][i])
            /\ \A i \in 1..Len(daily_clusters[b.date]) :
                 Eligible(c, daily_clusters[b.date][i]) =>
                   ClaimScore(c, b) <= ClaimScore(c, daily_clusters[b.date][i])
      ]_vars

\* a chain has just linked a cluster although a later date within the gap
\* window holds an unused cluster with a strictly lower score
C6_Witness ==
    /\ pc = "extend"
    /\ Len(traj) >= 2
    /\ LET c == traj[Len(traj) - 1]
           b == traj[Len(traj)]
       IN  \E d \in DOMAIN daily_clusters : \E i \in 1..Len(daily_clusters[d]) :
             LET x == daily_clusters[d][i]
             IN  /\ DateLess(b.date, d)
                 /\ to_datetime(d) - to_datetime(c.date) <= 3
                 /\ Key(x) \notin used
                 /\ distance_km(c.lat, c.lon, x.lat, x.lon) <= 2500
                 /\ ClaimScore(c, x) < ClaimScore(c, b)

\* C7: a second call on the same map returns the same list of trajectories
C7_Deterministic ==
    (pc = "done" /\ run >= 2) => trajectories = prev_result

\* the second call has returned a non-empty result
C7_Witness == pc = "done" /\ run = 2 /\ trajectories # << >>

---------------------------------------------------------------------------
\* Properties of classify_trajectory

\* the rule table of the classifier, over avg_speed = speed_total / steps
\* (centi-km), avg_spread = spread_total / days (km), net_south (km) and days
RuleTable(speed_total, steps, spread_total, net_south, days) ==
    LET gt(km) == speed_total > km * 100 * steps
        le(km) == speed_total <= km * 100 * steps
    IN  CASE gt(30) -> {"management_fast"}
          [] gt(15) /\ le(30) ->
               IF spread_total > 30 * days THEN {"management_vehicle"} ELSE {"herder_fast"}
          [] gt(5) /\ le(15) ->
               IF net_south > 20 THEN {"transhumance"} ELSE {"herder_local"}
          [] gt(2) /\ le(5) ->
               IF days > 10 /\ net_south > 15 THEN {"transhumance_slow"}
                                              ELSE {"local_burning"}
          [] le(2) ->
               IF days > 7 THEN {"village_persistent"} ELSE {"local_stationary"}
          [] OTHER -> {}

\* the four metrics of a trajectory, as the claim defines them
ClaimMetrics(t) ==
    [speed_total |-> SumSeq([i \in 1..(Len(t) - 1) |->
                        distance_km(t[i].lat, t[i].lon, t[i + 1].lat, t[i + 1].lon)]),
     steps |-> Len(t) - 1,
     spread_total |-> SumSeq([i \in 1..Len(t) |-> t[i].spread_km]),
     net_south |-> t[1].lat - t[Len(t)].lat,
     days |-> Len(t)]

\* C8: for a trajectory of at least 3 clusters the label is the one the rule
\* table gives for (avg_speed, avg_spread, net_south, days), each band's
\* upper bound inclusive
C8_RuleTable ==
    (cpc = "done" /\ Len(ctraj) >= 3) =>
        LET m == ClaimMetrics(ctraj)
        IN  RuleTable(m.speed_total, m.steps, m.spread_total, m.net_south, m.days)
                = {cresult.label}

\* a trajectory whose average speed is exactly 15 km/day was classified
C8_Witness ==
    /\ cpc = "done"
    /\ Len(ctraj) >= 3
    /\ ClaimMetrics(ctraj).speed_total = 1500 * ClaimMetrics(ctraj).steps
    /\ cresult.label \in {"transhumance", "herder_local"}

\* C9: the label is 'unknown', with an empty metrics dict, exactly when the
\* trajectory has fewer than 3 clusters
C9_UnknownIffShort ==
    cpc = "done" =>
        /\ (cresult.label = "unknown") <=> (Len(ctraj) < 3)
        /\ (DOMAIN cresult.metrics = {}) <=> (Len(ctraj) < 3)

\* a trajectory of exactly 2 clusters was classified
C9_Witness == cpc = "done" /\ Len(ctraj) = 2 /\ cresult.label = "unknown"

\* the claim's net_east_km, in tenths of a km:
\* (last.lon - first.lon) * 111 * cos(mean latitude of first and last)
ClaimNetEast(t) ==
    RoundDiv((t[Len(t)].lon - t[1].lon) * (CosE6(t[1].lat + t[Len(t)].lat) \div 100), 1000)

\* C10 as stated: net_east_km is the latitude-corrected east displacement
C10_NetEastLatCorrected ==
    (cpc = "done" /\ Len(ctraj) >= 3) =>
        cresult.metrics.net_east_km = ClaimNetEast(ctraj)

\* C10 as amended: net_east_km is the uncorrected (last.lon - first.lon) * 111,
\* rounded to one decimal
C10_NetEastUncorrected ==
    (cpc = "done" /\ Len(ctraj) >= 3) =>
        cresult.metrics.net_east_km = 10 * (ctraj[Len(ctraj)].lon - ctraj[1].lon)

\* a classified trajectory whose corrected and uncorrected east displacements
\* differ after rounding
C10_Witness ==
    /\ cpc = "done"
    /\ Len(ctraj) >= 3
    /\ ClaimNetEast(ctraj) # 10 * (ctraj[Len(ctraj)].lon - ctraj[1].lon)

---------------------------------------------------------------------------
\* Properties of analyze_trajectory_response

\* the 1-based positions of the clusters of atraj inside the boundary
InsideSet == {i \in 1..Len(atraj) : <<atraj[i].lat, atraj[i].lon>> \in boundary}

\* C11 as stated: for any trajectory with at least one cluster, the analysis
\* returns None if and only if no cluster is inside the boundary
C11_NoneIffNoInside ==
    (apc = "done" /\ Len(atraj) >= 1) => (IsNone(aresult) <=> InsideSet = {})

\* C11 as the code has it: a trajectory with fewer than three clusters yields
\* None whatever the boundary; one with at least three clusters yields None if
\* and only if no cluster is inside the boundary
C11_NoneIffNoInsideFromThree ==
    apc = "done" =>
        /\ Len(atraj) < 3 => IsNone(aresult)
        /\ Len(atraj) >= 3 => (IsNone(aresult) <=> InsideSet = {})

\* a three-cluster trajectory with one cluster inside has a result, and a
\* trajectory without inside clusters has none
C11_Witness ==
    /\ apc = "done"
    /\ Len(atraj) = 3
    /\ Cardinality(InsideSet) = 1
    /\ ~IsNone(aresult)

\* the outcome of a return value, "None" for None
OutcomeOf(r) == IF IsNone(r) THEN "None" ELSE r.outcome

\* the position of the last inside cluster
LastInside == CHOOSE i \in InsideSet : \A j \in InsideSet : j <= i

\* C12 as stated: the outcome is STOPPED_INSIDE exactly when the last inside
\* cluster is the last cluster of the trajectory, however many earlier
\* clusters were outside
C12_StoppedInsideIffLastInside ==
    apc = "done" => (OutcomeOf(aresult) = "STOPPED_INSIDE" <=> Len(atraj) \in InsideSet)

\* C12 as the code has it: the same, for trajectories of at least three
\* clusters (a shorter one has no outcome)
C12_StoppedInsideIffLastInsideFromThree ==
    (apc = "done" /\ Len(atraj) >= 3) =>
        (OutcomeOf(aresult) = "STOPPED_INSIDE" <=> Len(atraj) \in InsideSet)

\* only the last of five clusters is inside, and the group stopped inside
C12_Witness ==
    /\ apc = "done"
    /\ Len(atraj) = 5
    /\ InsideSet = {5}
    /\ OutcomeOf(aresult) = "STOPPED_INSIDE"

\* the trajectory of 8 clusters that is inside on days 3, 4 and 5 only
EntersDayThree == Len(atraj) = 8 /\ InsideSet = {3, 4, 5}

\* C13 as stated: the outcome is TRANSITED whenever a cluster after the last
\* inside cluster is outside; the trajectory inside on days 3 to 5 of 8
\* yields TRANSITED with days_burning_inside = 3
C13_TransitedWhenOutsideAfter ==
    apc = "done" =>
        /\ (InsideSet # {} /\ \E j \in 1..Len(atraj) : j > LastInside /\ j \notin InsideSet)
               => OutcomeOf(aresult) = "TRANSITED"
        /\ EntersDayThree =>
               (OutcomeOf(aresult) = "TRANSITED" /\ aresult.days_burning_inside = 3)

\* C13 as the code has it: the same, for trajectories of at least three
\* clusters
C13_TransitedWhenOutsideAfterFromThree ==
    (apc = "done" /\ Len(atraj) >= 3) =>
        /\ (InsideSet # {} /\ \E j \in 1..Len(atraj) : j > LastInside /\ j \notin InsideSet)
               => OutcomeOf(aresult) = "TRANSITED"
        /\ EntersDayThree =>
               (OutcomeOf(aresult) = "TRANSITED" /\ aresult.days_burning_inside = 3)

C13_Witness ==
    /\ apc = "done"
    /\ EntersDayThree
    /\ OutcomeOf(aresult) = "TRANSITED"

\* the group left the boundary and then stopped burning outside: the cluster
\* that shows the exit is the only one after the last inside cluster
LeftThenStopped == InsideSet # {} /\ LastInside = Len(atraj) - 1

\* C14: each of the three outcomes is produced; STOPPED_AFTER_EXIT is what a
\* group that left the boundary and then stopped burning outside gets
C14_StoppedAfterExitReturned ==
    (apc = "done" /\ Len(atraj) >= 3 /\ LeftThenStopped) =>
        OutcomeOf(aresult) = "STOPPED_AFTER_EXIT"

\* what the code does instead: no call returns STOPPED_AFTER_EXIT
StoppedAfterExitNeverReturned ==
    OutcomeOf(aresult) # "STOPPED_AFTER_EXIT" /\ outcome # "STOPPED_AFTER_EXIT"

\* C15: every call completes and returns exactly one of None, STOPPED_INSIDE,
\* TRANSITED and STOPPED_AFTER_EXIT
C15_OutcomeTotal ==
    /\ apc # "done" => ENABLED NextAnalyze
    /\ apc = "done" =>
           \/ IsNone(aresult)
           \/ aresult.outcome \in {"STOPPED_INSIDE", "TRANSITED", "STOPPED_AFTER_EXIT"}

\* a call on four clusters with one of them inside has completed
C15_Witness ==
    /\ apc = "done"
    /\ Len(atraj) = 4
    /\ InsideSet = {2}
    /\ OutcomeOf(aresult) = "TRANSITED"

RECURSIVE SumFires(_)
SumFires(S) ==
    IF S = {} THEN 0
    ELSE LET i == CHOOSE j \in S : TRUE
         IN  atraj[i].fires + SumFires(S \ {i})

\* C16: days_burning_inside is the number of inside clusters and fires_inside
\* the sum of their fire counts, contiguous in time or not
C16_InsideCounts ==
    (apc = "done" /\ ~IsNone(aresult)) =>
        /\ aresult.days_burning_inside = Cardinality(InsideSet)
        /\ aresult.fires_inside = SumFires(InsideSet)

\* inside on days 2 and 4 of 5
C16_Witness ==
    /\ apc = "done"
    /\ Len(atraj) = 5
    /\ InsideSet = {2, 4}
    /\ aresult.days_burning_inside = 2

\* distance from each inside cluster to the next inside cluster, in centi-km
RECURSIVE BetweenInside(_)
BetweenInside(S) ==
    IF Cardinality(S) <= 1 THEN 0
    ELSE LET i == CHOOSE j \in S : \A k \in S : j <= k
             n == CHOOSE j \in S \ {i} : \A k \in S \ {i} : j <= k
         IN  distance_km(atraj[i].lat, atraj[i].lon, atraj[n].lat, atraj[n].lon)
             + BetweenInside(S \ {i})

\* the steps of the trajectory with both ends inside, in centi-km
RECURSIVE StepsInside(_)
StepsInside(i) ==
    IF i >= Len(atraj) THEN 0
    ELSE (IF i \in InsideSet /\ i + 1 \in InsideSet
          THEN distance_km(atraj[i].lat, atraj[i].lon, atraj[i + 1].lat, atraj[i + 1].lon)
          ELSE 0)
         + StepsInside(i + 1)

\* C17: distance_inside_km is the distance between consecutive inside
\* clusters only (from one inside cluster to the next, or along the steps
\* with both ends inside): the steps to and from the outside clusters between
\* an exit and a re-entry are not counted; speed_inside_km_day is that
\* distance over days_burning_inside
C17_DistanceBetweenInsideOnly ==
    (apc = "done" /\ ~IsNone(aresult)) =>
        \E d \in {BetweenInside(InsideSet), StepsInside(1)} :
            /\ aresult.distance_inside_km = RoundDiv(d, 10)
            /\ aresult.speed_inside_km_day = RoundDiv(d, 10 * Cardinality(InsideSet))

---------------------------------------------------------------------------
\* Properties of analyze_park

BoundaryUnavailable == park.geometry \in {"missing", "malformed"}

\* C18 as stated: without a boundary analyze_park yields None without
\* raising, and clustering, linking and classification are still carried out
\* as far as the fire data reaches
C18_StagesRunWithoutBoundary ==
    (ppc = "done" /\ BoundaryUnavailable) =>
        /\ IsNone(presult)
        /\ (fire_data.loaded /\ Len(fire_data.rows) >= min_park_fires)
               => "detect_daily_clusters" \in calls
        /\ ("detect_daily_clusters" \in calls
               /\ Cardinality(DOMAIN detect_result) >= min_active_days)
               => "track_clusters" \in calls
        /\ ("track_clusters" \in calls /\ trajectories # << >>)
               => "classify_trajectory" \in calls

\* C18 as the code has it: without a boundary analyze_park returns None right
\* after get_park_boundary; no fire data is loaded and nothing is clustered,
\* linked or classified
C18_NoneBeforeAnyStage ==
    (BoundaryUnavailable /\ ppc # "start") =>
        /\ ppc = "done"
        /\ IsNone(presult)
        /\ calls = {"get_park_boundary"}
        /\ dpc = "off" /\ pc = "idle" /\ apc = "off"
        /\ daily_clusters = [d \in {} |-> << >>]

\* a park with a malformed geometry and fire data of five days and more has
\* been analysed
C18_Witness ==
    /\ ppc = "done"
    /\ park.geometry = "malformed"
    /\ fire_data.loaded
    /\ Len(fire_data.rows) >= min_park_fires
    /\ IsNone(presult)

---------------------------------------------------------------------------
\* Properties of detect_daily_clusters

\* the rows of fires_df with the date d
RowsOn(d) == {v \in 1..Len(fires_df) : fires_df[v].acq_date = d}

InputDates == {fires_df[v].acq_date : v \in 1..Len(fires_df)}

\* C19: a day with fewer than min_fires detections gets no cluster and is not
\* clustered at all, and every date of the result has a non-empty cluster list
C19_FewFiresNoCluster ==
    /\ \A d \in InputDates :
           Cardinality(RowsOn(d)) < min_fires =>
               (d \notin DOMAIN detect_result /\ d \notin attempted)
    /\ \A d \in DOMAIN detect_result : detect_result[d] # << >>

\* the call has returned; one day had 7 detections at one place and is
\* absent, one day was clustered without a cluster and is absent, one day has
\* clusters
C19_Witness ==
    /\ dpc = "done"
    /\ \E d \in InputDates : Cardinality(RowsOn(d)) = 7 /\ d \notin DOMAIN detect_result
    /\ \E d \in attempted : d \notin DOMAIN detect_result
    /\ DOMAIN detect_result # {}

\* the noise rows of a day: not core and within eps of no core row
NoiseRows(day_fires) ==
    {v \in 1..Len(day_fires) :
        \A u \in Neighbors(day_fires, v) : ~IsCore(day_fires, u)}

RECURSIVE SumFiresOf(_)
SumFiresOf(clusters) ==
    IF clusters = << >> THEN 0 ELSE Head(clusters).fires + SumFiresOf(Tail(clusters))

\* C20: the clusters of a day are pairwise disjoint sets of rows of that day,
\* each counted with its number of rows; no noise row is in a cluster, the
\* cids of a day differ, and the counts add up to at most the rows of the day
C20_ClustersDisjoint ==
    \A d \in DOMAIN detect_result :
        LET day_fires == DayFires(fires_df, d)
            m == masks[d]
            c == detect_result[d]
        IN  /\ Len(m) = Len(c)
            /\ \A k \in 1..Len(c) :
                   /\ m[k] \subseteq 1..Len(day_fires)
                   /\ c[k].fires = Cardinality(m[k])
                   /\ m[k] \cap NoiseRows(day_fires) = {}
            /\ \A k, l \in 1..Len(c) :
                   k # l => (m[k] \cap m[l] = {} /\ c[k].cid # c[l].cid)
            /\ SumFiresOf(c) <= Len(day_fires)

\* the call has returned; one day has two clusters with a row of the first
\* within eps of a core row of the second, and one day has a cluster and a
\* noise row
C20_Witness ==
    /\ dpc = "done"
    /\ \E d \in DOMAIN detect_result :
           LET day_fires == DayFires(fires_df, d)
           IN  /\ Len(masks[d]) = 2
               /\ \E v \in masks[d][1] : \E u \in masks[d][2] :
                      IsCore(day_fires, u) /\ v \in Neighbors(day_fires, u)
    /\ \E d \in DOMAIN detect_result : NoiseRows(DayFires(fires_df, d)) # {}

---------------------------------------------------------------------------
\* Properties of track_clusters on the clusters of one group

\* the clusters of the input map in date order, for a map with one cluster a
\* date
ClustersInDateOrder ==
    LET dates == SortDates(DOMAIN daily_clusters)
    IN  [i \in 1..Len(dates) |-> daily_clusters[dates[i]][1]]

\* at least five dates, one cluster each, consecutive dates at most
\* max_gap_days apart and consecutive clusters within max_link_km
OneLinkableClusterADay ==
    /\ Cardinality(DOMAIN daily_clusters) >= 5
    /\ \A d \in DOMAIN daily_clusters : Len(daily_clusters[d]) = 1
    /\ \A i \in 1..(Len(ClustersInDateOrder) - 1) :
         LET a == ClustersInDateOrder[i]
             b == ClustersInDateOrder[i + 1]
         IN  /\ to_datetime(b.date) - to_datetime(a.date) <= 3
             /\ distance_km(a.lat, a.lon, b.lat, b.lon) <= 2500

\* C21: on a map of N >= 5 dates with one cluster each, consecutive dates at
\* most max_gap_days apart and consecutive clusters within max_link_km,
\* track_clusters returns exactly one trajectory: all N clusters in date order
C21_OneTrajectoryOfAll ==
    (pc = "done" /\ OneLinkableClusterADay) =>
        trajectories = <<ClustersInDateOrder>>

\* track_clusters has returned on ten such dates of a group that moved south
C21_Witness ==
    /\ pc = "done"
    /\ OneLinkableClusterADay
    /\ Len(ClustersInDateOrder) = 10
    /\ ClustersInDateOrder[1].lat > ClustersInDateOrder[10].lat

---------------------------------------------------------------------------
\* Properties of the records analyze_park keeps

\* the record r was made from the trajectory t
StemsFrom(r, t) ==
    /\ r.trajectory_days = Len(t)
    /\ r.origin_date = t[1].date
    /\ r.origin_lat = Round4(t[1].lat)
    /\ r.origin_lon = Round4(t[1].lon)

\* the average step distance of t is within [0.5, 30] km
AverageInRange(t) ==
    LET total == SumSeq(Movements(t))
        n == Len(t) - 1
    IN  50 * n <= total /\ total <= 3000 * n

\* the average step distance of t rounded to one decimal is within [0.5, 30]
RoundedAverageInRange(t) ==
    LET avg == RoundDiv(SumSeq(Movements(t)), 10 * (Len(t) - 1))
    IN  5 <= avg /\ avg <= 300

\* the label of t contains 'management'
ManagementLabel(t) == Label(t) \in {"management_fast", "management_vehicle"}

\* every kept record has a speed within [0.5, 30] and no management type
KeptRecordsInRange ==
    \A i \in 1..Len(infraction_trajs) :
      /\ 5 <= infraction_trajs[i].avg_speed_km_day
      /\ infraction_trajs[i].avg_speed_km_day <= 300
      /\ infraction_trajs[i].group_type \notin {"management_fast", "management_vehicle"}

\* the summary counts the kept records and nothing else
SummaryOfKeptOnly ==
    (ppc = "done" /\ ~IsNone(presult)) =>
        /\ presult.trajectories = infraction_trajs
        /\ presult.summary.total_groups = Len(infraction_trajs)
        /\ presult.summary.groups_transited + presult.summary.groups_stopped_inside
               + presult.summary.groups_stopped_after = Len(infraction_trajs)
        /\ presult.summary.transhumance_groups + presult.summary.herder_groups
               <= Len(infraction_trajs)

---------------------------------------------------------------------------
\* Properties of interleaved invocations of track_clusters

\* the keys the running call has marked: those of its chains
OwnMarks ==
    ActiveChainKeys \cup discarded
        \cup UNION {TrajKeys(trajectories[a]) : a \in 1..Len(trajectories)}

\* C23: two track_clusters invocations on different maps, each with its own
\* used set, may interleave their steps in any way: each returns the
\* trajectories it returns when it runs alone (its second call, which no
\* step of the other invocation interrupts), and the used set of the running
\* invocation holds the marks of its own call only
C23_InterleavingKeepsResults ==
    /\ (run = 2 /\ pc = "done") => trajectories = prev_result
    /\ (suspended.run = 2 /\ suspended.pc = "done") =>
           suspended.trajectories = suspended.prev_result
    /\ pc # "idle" => used = OwnMarks

\* both invocations have returned trajectories from maps that differ, after
\* an invocation was suspended within its first call, and the running one
\* has returned from its call alone
C23_Witness ==
    /\ run = 2
    /\ pc = "done"
    /\ trajectories # << >>
    /\ suspended.mixed
    /\ suspended.pc = "done"
    /\ suspended.trajectories # << >>
    /\ suspended.daily_clusters # daily_clusters

---------------------------------------------------------------------------
\* Properties of the stages' inputs

\* track_clusters has been called by analyze_park
TrackCalled == "track_clusters" \in calls

\* c is a cluster record of the map daily_clusters, as the map holds it
RecordOfMap(c) ==
    /\ c.date \in DOMAIN daily_clusters
    /\ \E j \in 1..Len(daily_clusters[c.date]) : daily_clusters[c.date][j] = c

\* C24: no stage changes its input: during and after track_clusters the map
\* is as detect_daily_clusters returned it and every cluster of a chain is a
\* record of the map as the map holds it; the trajectory handed to
\* classify_trajectory and the one handed to analyze_trajectory_response
\* are, during and after the call, as track_clusters returned them
C24_InputsUnchanged ==
    /\ TrackCalled => daily_clusters = detect_result
    /\ \A a \in 1..Len(trajectories) : \A i \in 1..Len(trajectories[a]) :
         RecordOfMap(trajectories[a][i])
    /\ pc \in {"extend", "close"} => \A i \in 1..Len(traj) : RecordOfMap(traj[i])
    /\ "classify_trajectory" \in calls =>
         \E a \in 1..Len(trajectories) : ctraj = trajectories[a]
    /\ "analyze_trajectory_response" \in calls =>
         \E a \in 1..Len(trajectories) : atraj = trajectories[a]

\* a trajectory has gone through the three stages: analyze_park has returned
\* a record of it
C24_Witness ==
    /\ ppc = "done"
    /\ ~IsNone(presult)
    /\ ~IsNone(aresult)
    /\ cresult.label # "unknown"
    /\ Len(atraj) >= 5

---------------------------------------------------------------------------
\* Properties of the links of track_clusters

\* consecutive clusters of the chain t are at most 25 km apart
LinksWithinReach(t) ==
    \A i \in 1..(Len(t) - 1) :
      distance_km(t[i].lat, t[i].lon, t[i + 1].lat, t[i + 1].lon) <= 2500

\* C25: in every returned trajectory, and in the chain under construction,
\* consecutive clusters are at most max_link_km apart by distance_km; a
\* cluster farther away is never linked, even the only unused cluster of a
\* date in the gap window
C25_LinksWithinMaxLinkKm ==
    /\ \A a \in 1..Len(trajectories) : LinksWithinReach(trajectories[a])
    /\ pc \in {"extend", "close"} => LinksWithinReach(traj)

\* a chain is closed that passed over a date whose only cluster was unused
\* and more than 25 km from the chain's cluster before it
C25_Witness ==
    /\ pc = "close"
    /\ \E i \in 1..(Len(traj) - 1) : \E d \in DOMAIN daily_clusters :
         /\ DateLess(traj[i].date, d)
         /\ DateLess(d, traj[i + 1].date)
         /\ Len(daily_clusters[d]) = 1
         /\ Key(daily_clusters[d][1]) \notin used
         /\ distance_km(traj[i].lat, traj[i].lon,
                        daily_clusters[d][1].lat, daily_clusters[d][1].lon) > 2500

---------------------------------------------------------------------------
\* Properties of the end of a chain

\* x lies on a later date at most max_gap_days after the cluster c and at
\* most max_link_km from it
InWindow(c, x) ==
    /\ DateLess(c.date, x.date)
    /\ to_datetime(x.date) - to_datetime(c.date) <= 3
    /\ distance_km(c.lat, c.lon, x.lat, x.lon) <= 2500

\* every cluster in the window of the chain's last cluster is used
WindowUsedUp ==
    \A d \in DOMAIN daily_clusters : \A j \in 1..Len(daily_clusters[d]) :
      InWindow(traj[Len(traj)], daily_clusters[d][j]) =>
          Key(daily_clusters[d][j]) \in used

\* C26: when a chain is closed, every cluster on a later date within
\* max_gap_days of the chain's last cluster and within max_link_km of it is
\* already used; and the extension loop always terminates: a chain that is
\* being extended is closed
C26_ClosedWhenWindowUsedUp ==
    /\ [](pc = "close" => WindowUsedUp)
    /\ (pc = "extend") ~> (pc = "close")

\* a chain is closed while a cluster in the window of its last cluster
\* belongs to another chain
C26_Witness ==
    /\ pc = "close"
    /\ \E d \in DOMAIN daily_clusters : \E j \in 1..Len(daily_clusters[d]) :
         InWindow(traj[Len(traj)], daily_clusters[d][j])

---------------------------------------------------------------------------
\* Properties of the divisions of classify_trajectory and
\* analyze_trajectory_response

\* no cluster of the trajectory analysed is inside the boundary
NoClusterInside == InsideIdx(atraj) = {}

\* C27 as stated: classify_trajectory reports an avg_speed_km_day of 0 for a
\* trajectory without step distances, and a result of
\* analyze_trajectory_response with days_burning_inside 0 has a
\* speed_inside_km_day of 0
C27_ZeroWhenNoDenominator ==
    /\ (cpc = "done" /\ Movements(ctraj) = << >>) =>
          /\ "avg_speed_km_day" \in DOMAIN cresult.metrics
          /\ cresult.metrics.avg_speed_km_day = 0
    /\ (apc = "done" /\ ~IsNone(aresult) /\ aresult.days_burning_inside = 0) =>
          aresult.speed_inside_km_day = 0

\* C27: neither function divides by zero, because neither reaches its
\* division with an empty denominator: classify_trajectory takes the mean of
\* at least two step distances, and returns unknown with empty metrics (no
\* avg_speed_km_day) for a trajectory without step distances;
\* analyze_trajectory_response divides by at least one day inside, returns
\* None when no cluster is inside, and every result it returns has
\* days_burning_inside >= 1
C27_DenominatorsNeverZero ==
    /\ (cpc = "idle" /\ ~TooShort(ctraj)) => Len(Movements(ctraj)) >= 2
    /\ (cpc = "done" /\ Movements(ctraj) = << >>) =>
          cresult = [label |-> "unknown", metrics |-> EmptyMetrics]
    /\ (cpc = "done" /\ "avg_speed_km_day" \in DOMAIN cresult.metrics) =>
          Len(Movements(ctraj)) >= 2
    /\ apc = "result" => DaysInside(inside_points) >= 1
    /\ (apc = "done" /\ NoClusterInside) => IsNone(aresult)
    /\ (apc = "done" /\ ~IsNone(aresult)) => aresult.days_burning_inside >= 1

\* both functions have returned for a one-cluster trajectory, which has no
\* step distance, outside the boundary
C27_Witness ==
    /\ cpc = "done"
    /\ apc = "done"
    /\ Len(ctraj) = 1
    /\ NoClusterInside
    /\ cresult.metrics = EmptyMetrics
    /\ IsNone(aresult)

---------------------------------------------------------------------------
\* Properties of the three analysers of a trajectory

\* the three analysers have returned
AllAnalysed == apc = "done" /\ spc = "done" /\ opc = "done"

---------------------------------------------------------------------------
\* Properties of the chains of one call of track_clusters

\* the keys of the clusters of the input map
MapKeys == UNION {TrajKeys(daily_clusters[d]) : d \in DOMAIN daily_clusters}

ReturnedKeys == UNION {TrajKeys(trajectories[a]) : a \in 1..Len(trajectories)}

\* number of clusters in the returned trajectories, counted with repetition
ReturnedCount == SumSeq([a \in 1..Len(trajectories) |-> Len(trajectories[a])])

\* C29: when track_clusters returns, every cluster of the input map is used
\* and belongs to exactly one chain, a returned trajectory or a dropped
\* chain: the dropped and the returned clusters are disjoint and together
\* are the whole map, each counted once; and a cluster enters a chain only
\* while it is not yet used, at the step that marks it
C29_ChainsPartitionInput ==
    /\ [](pc = "done" =>
            /\ used = MapKeys
            /\ discarded \cup ReturnedKeys = MapKeys
            /\ discarded \cap ReturnedKeys = {}
            /\ ReturnedCount + Cardinality(discarded) = Cardinality(MapKeys))
    /\ [][(traj' # traj /\ traj' # << >>) =>
            /\ Key(traj'[Len(traj')]) \notin used
            /\ used' = used \cup {Key(traj'[Len(traj')])}]_vars
    /\ [][(discarded' # discarded /\ discarded' # {}) =>
            /\ TrajKeys(traj) \cap discarded = {}
            /\ discarded' = discarded \cup TrajKeys(traj)]_vars

\* a call has returned a trajectory and has dropped a short chain, on a map
\* with a day of two clusters
C29_Witness ==
    /\ pc = "done"
    /\ Len(trajectories) >= 1
    /\ discarded # {}
    /\ \E d \in DOMAIN daily_clusters : Len(daily_clusters[d]) >= 2
    /\ used = MapKeys

---------------------------------------------------------------------------
\* Properties of the labels of the pipeline

\* the trajectories track_clusters has returned to analyze_park
PipelineTrajectories == IF gpc \in {"loop", "done"} THEN trajectories ELSE << >>

\* avg_speed <= max_link_km for the step distances of t
AverageWithinReach(t) == SumSeq(Movements(t)) <= max_link_km * 100 * (Len(t) - 1)

\* C30: with the default max_link_km of 25 the average step distance of a
\* trajectory returned by track_clusters does not exceed max_link_km, so
\* classify_trajectory does not label it management_fast, and analyze_park
\* files no group under management_fast
C30_NoManagementFast ==
    /\ \A a \in 1..Len(PipelineTrajectories) :
         /\ AverageWithinReach(PipelineTrajectories[a])
         /\ classify_trajectory(PipelineTrajectories[a]).label # "management_fast"
    /\ cresult.label # "management_fast"
    /\ ~IsNone(results) => "management_fast" \notin DOMAIN results.groups

\* analyze_park has returned a group that moves 24 km a day, filed as
\* herder_fast
C30_Witness ==
    /\ gpc = "done"
    /\ Len(trajectories) = 1
    /\ cresult.label = "herder_fast"
    /\ cresult.metrics.avg_speed_km_day = 240
    /\ "herder_fast" \in DOMAIN results.groups

=============================================================================
